---- MODULE Spec2Model ----
(***************************************************************************)
(* Lease research agent backend: the session store, the card normalizer,   *)
(* the batch runner and the three streaming flows of the API, modelled     *)
(* from backend/app/services/session_store.py,                             *)
(* backend/app/services/research_agent.py and backend/app/api/routes.py.   *)
(*                                                                         *)
(* A Python str is a sequence of tokens (Str).  A token is a piece of text *)
(* that the operations of the model never split: a letter or a space in a  *)
(* card title, the whole text of a topic of CARD_TOPICS.  str.lower() and  *)
(* str.strip() are computed token by token.                                *)
(***************************************************************************)
EXTENDS Integers, Sequences, FiniteSets, TLC

(***************************************************************************)
(* Bounds of the model                                                     *)
(***************************************************************************)
\* longest raw "cards" array a provider answer carries in the stream model
MaxRawCards == 1
\* last value of the clock
MaxTime == 2
\* the session TTL in clock ticks (SessionStore.ttl_seconds, 6 h in the code)
TtlTicks == 2
\* progress ticks a custom-card or edit stream emits before the task ends
MaxProgressTicks == 2
\* longest custom-card collection the model lets a session grow
MaxCustomCards == 2
\* largest credit balance a user starts with
MaxCredits == 3
\* longest "cards" list handed to the normalizer on its own
MaxPayloadItems == 2
\* most raw cards of one answer whose source links are assigned
MaxLinkItems == 3
\* progress lines a generator sends while its task runs, when the wait
\* loop is followed tick by tick: enough to go through thinking_steps once
\* and start again
MaxThinkingTicks == 10
\* most rounds in which the provider asks for a search
MaxToolAnswers == 9

(***************************************************************************)
(* Program constants                                                       *)
(***************************************************************************)
BATCH_SIZE == 5

\* research_agent._openai_card_batch_with_tools: max_tool_rounds: int = 8
max_tool_rounds == 8

\* schemas/insight_card.py: the ordered topic list; each topic is one token
CARD_TOPICS ==
    << <<"Income shifts (local income, higher/lower vs expected)">>,
       <<"Traffic counts (current vs future, higher/lower)">>,
       <<"Rent averages (same property, area, historical)">>,
       <<"Rent forecast (today vs future, up or down)">>,
       <<"Nearby infrastructure developments (effect on rents)">>,
       <<"Co-tenancy mix (e.g. anchor tenant commitment, category clustering)">>,
       <<"Demographics & consumer buying capacity">>,
       <<"Footfall">>,
       <<"Local vacancy (new projects, tenant leverage to request lower rent)">>,
       <<"Tenant business category trends (e.g. apparel growth in area)">>,
       <<"Tenant / landlord risk (RAW FACTS ONLY: brand, cash, payment history, disputes, loans)">>,
       <<"Upcoming building maintenance (e.g. HVAC)">>,
       <<"Market activity & trends (area and tenant category)">>,
       <<"Sales comps (portfolio vs this lease, comp brands, avg lease term, competitors in property)">>,
       <<"Portfolio data (user-provided only)">>,
       <<"NOI vs cashflow & avg occupancy (landlord: NOI to run building, occupancy level)">> >>

(***************************************************************************)
(* Text: str.lower(), str.strip()                                          *)
(***************************************************************************)
\* the tokens of the model that hold an upper-case letter, with their lower case
LowerTok ==
    ("A" :> "a") @@ ("B" :> "b") @@ ("C" :> "c") @@ ("Custom" :> "custom") @@
    ("Income shifts (local income, higher/lower vs expected)" :> "income shifts (local income, higher/lower vs expected)") @@
    ("Traffic counts (current vs future, higher/lower)" :> "traffic counts (current vs future, higher/lower)") @@
    ("Rent averages (same property, area, historical)" :> "rent averages (same property, area, historical)") @@
    ("Rent forecast (today vs future, up or down)" :> "rent forecast (today vs future, up or down)") @@
    ("Nearby infrastructure developments (effect on rents)" :> "nearby infrastructure developments (effect on rents)") @@
    ("Co-tenancy mix (e.g. anchor tenant commitment, category clustering)" :> "co-tenancy mix (e.g. anchor tenant commitment, category clustering)") @@
    ("Demographics & consumer buying capacity" :> "demographics & consumer buying capacity") @@
    ("Footfall" :> "footfall") @@
    ("Local vacancy (new projects, tenant leverage to request lower rent)" :> "local vacancy (new projects, tenant leverage to request lower rent)") @@
    ("Tenant business category trends (e.g. apparel growth in area)" :> "tenant business category trends (e.g. apparel growth in area)") @@
    ("Tenant / landlord risk (RAW FACTS ONLY: brand, cash, payment history, disputes, loans)" :> "tenant / landlord risk (raw facts only: brand, cash, payment history, disputes, loans)") @@
    ("Upcoming building maintenance (e.g. HVAC)" :> "upcoming building maintenance (e.g. hvac)") @@
    ("Market activity & trends (area and tenant category)" :> "market activity & trends (area and tenant category)") @@
    ("Sales comps (portfolio vs this lease, comp brands, avg lease term, competitors in property)" :> "sales comps (portfolio vs this lease, comp brands, avg lease term, competitors in property)") @@
    ("Portfolio data (user-provided only)" :> "portfolio data (user-provided only)") @@
    ("NOI vs cashflow & avg occupancy (landlord: NOI to run building, occupancy level)" :> "noi vs cashflow & avg occupancy (landlord: noi to run building, occupancy level)")

\* str.lower()
Lower(s) == [i \in 1..Len(s) |-> IF s[i] \in DOMAIN LowerTok THEN LowerTok[s[i]] ELSE s[i]]

\* str.lstrip() / str.rstrip() / str.strip(): the space is the only white space
RECURSIVE LStrip(_)
LStrip(s) == IF s # <<>> /\ Head(s) = " " THEN LStrip(Tail(s)) ELSE s

RECURSIVE RStrip(_)
RStrip(s) == IF s # <<>> /\ s[Len(s)] = " " THEN RStrip(SubSeq(s, 1, Len(s) - 1)) ELSE s

Strip(s) == RStrip(LStrip(s))

\* the decimal digits of f"{n}" for the small n the model formats
Digit == <<"1", "2", "3", "4", "5", "6", "7", "8", "9">>

\* list[a:b] of Python, 0-based, clipped to the list
Slice(s, a, b) == SubSeq(s, a + 1, IF b < Len(s) THEN b ELSE Len(s))


(***************************************************************************)
(* JSON values and Python dicts                                            *)
(***************************************************************************)
\* a JSON string, the JSON null and a key the object does not have
JStr(s) == [k |-> "str", s |-> s]
JNull == [k |-> "null", s |-> <<>>]
JMissing == [k |-> "missing", s |-> <<>>]

\* Python truth of a string-or-None value: None and "" are false
Truthy(v) == v.k = "str" /\ v.s # <<>>

\* `v or default` for a string-or-None value v and a str default
OrElse(v, default) == IF Truthy(v) THEN v.s ELSE default

\* a JSON number given as an int, a key the object does not have, and a value
\* int() raises on (None, "abc")
JInt(n) == [k |-> "int", n |-> n]
JNoInt == [k |-> "missing", n |-> 0]
JBadInt == [k |-> "bad", n |-> 0]

\* dict.get(key, default)
DictGet(d, key, default) == IF key \in DOMAIN d THEN d[key] ELSE default

\* the entries of d under the given keys
Restrict(d, keys) == [key \in DOMAIN d \cap keys |-> d[key]]

\* dict.update(partial): the keys of partial replace or extend those of d
DictUpdate(d, partial) ==
    [key \in DOMAIN d \cup DOMAIN partial |->
        IF key \in DOMAIN partial THEN partial[key] ELSE d[key]]

(***************************************************************************)
(* Session store (services/session_store.py)                               *)
(*                                                                         *)
(* The sessions table is a function from the ids that have a row to the    *)
(* row [data, expires_at].  json.dumps followed by json.loads gives back   *)
(* the dicts of the model (string keys, lists, strings, numbers, null), so *)
(* data_json holds the dict itself.                                        *)
(***************************************************************************)
\* SessionStore._cleanup_expired: DELETE FROM sessions WHERE expires_at <= now
CleanupExpired(table, t) ==
    [sid \in {x \in DOMAIN table : table[x].expires_at > t} |-> table[sid]]

\* SessionStore.put: clean up, then insert or replace the row with a fresh expiry
Put(table, sid, data, t) ==
    LET cleaned == CleanupExpired(table, t)
    IN  [x \in DOMAIN cleaned \cup {sid} |->
            IF x = sid THEN [data |-> data, expires_at |-> t + TtlTicks] ELSE cleaned[x]]

\* a get that hands out a row whatever its expiry
GetIgnoresExpiry(table, sid, t) ==
    IF sid \in DOMAIN table
    THEN [found |-> TRUE, data |-> table[sid].data]
    ELSE [found |-> FALSE, data |-> <<>>]

\* a get that still hands out a row at the instant it expires
GetAtExpiry(table, sid, t) ==
    IF sid \in DOMAIN table /\ table[sid].expires_at >= t
    THEN [found |-> TRUE, data |-> table[sid].data]
    ELSE [found |-> FALSE, data |-> <<>>]

\* SessionStore.get: the row's dict if the row is there and expires_at > now
Get(table, sid, t) ==
    IF sid \in DOMAIN table /\ table[sid].expires_at > t
    THEN [found |-> TRUE, data |-> table[sid].data]
    ELSE [found |-> FALSE, data |-> <<>>]

\* the table after SessionStore.get, which cleans up before it selects
GetTable(table, sid, t) == CleanupExpired(table, t)

\* a patch that refreshes the row and leaves its data as it was
PatchDropsPartial(table, sid, partial, t) ==
    LET current == Get(table, sid, t)
    IN  IF ~current.found
        THEN [found |-> FALSE, data |-> <<>>, table |-> GetTable(table, sid, t)]
        ELSE [found |-> TRUE, data |-> current.data,
              table |-> Put(GetTable(table, sid, t), sid, current.data, t)]

\* a merge that stores the partial in place of the record
PatchReplacesRecord(table, sid, partial, t) ==
    LET current == Get(table, sid, t)
    IN  IF ~current.found
        THEN [found |-> FALSE, data |-> <<>>, table |-> GetTable(table, sid, t)]
        ELSE [found |-> TRUE, data |-> partial,
              table |-> Put(GetTable(table, sid, t), sid, partial, t)]

\* a patch that merges and leaves the expiry as it was
PatchKeepsExpiry(table, sid, partial, t) ==
    LET current == Get(table, sid, t)
        cleaned == GetTable(table, sid, t)
    IN  IF ~current.found
        THEN [found |-> FALSE, data |-> <<>>, table |-> cleaned]
        ELSE [found |-> TRUE, data |-> DictUpdate(current.data, partial),
              table |-> [cleaned EXCEPT ![sid].data = DictUpdate(current.data, partial)]]

\* SessionStore.patch: result (the updated dict, or not found) and the table after
Patch(table, sid, partial, t) ==
    LET current == Get(table, sid, t)
    IN  IF ~current.found
        THEN [found |-> FALSE, data |-> <<>>, table |-> GetTable(table, sid, t)]
        ELSE LET merged == IF DOMAIN partial = {}
                           THEN current.data
                           ELSE DictUpdate(current.data, partial)
             IN  [found |-> TRUE, data |-> merged,
                  table |-> Put(GetTable(table, sid, t), sid, merged, t)]

(***************************************************************************)
(* Card normalizer (research_agent._cards_from_llm_json)                   *)
(*                                                                         *)
(* A raw item of the provider's "cards" array is                           *)
(*   [isdict, title, impact, confidence_score, source]                     *)
(* with title, impact and source string-or-null values and                 *)
(* confidence_score a number value.  A card is                             *)
(*   [title, impact, confidence_score, source]                             *)
(* where title is a string-or-null value (the validation-failure path can  *)
(* store null), impact and source are strs and confidence_score an int.    *)
(***************************************************************************)
NotAvailable == <<"Not", "available">>

Impacts == {<<"positive">>, <<"neutral">>, <<"negative">>}

\* _shorten_source: at most max_words words are kept; the sources of the model
\* are lists of words, so split() and " ".join() are the list itself
ShortenSource(source, max_words) ==
    IF source = <<>> \/ Len(source) <= max_words
    THEN source
    ELSE IF Lower(source) \in {<<"not", "available">>, <<"user", "document">>,
                               <<"public", "data">>, <<"market", "sources">>}
              \/ (Len(source) >= 2 /\ Lower(SubSeq(source, 1, 2)) = <<"not", "available">>)
         THEN source
         ELSE SubSeq(source, 1, max_words)

\* src of lines 232-235 and 264-267
NormSource(c) ==
    LET src == OrElse(c.source, NotAvailable)
        rewritten == IF Lower(src) \in {<<"web", "search">>, <<"websearch">>}
                     THEN <<"Public", "data", "/", "Market", "sources">>
                     ELSE src
    IN  ShortenSource(rewritten, 4)

\* f"Card {i+1}" for the 0-based position i of the item
CardN(i) == <<"C", "a", "r", "d", " ", Digit[i + 1]>>

\* int(c.get("confidence_score", 0)): the value, when int() does not raise
IntOf(v) == IF v.k = "int" THEN v.n ELSE 0

\* InsightCard(...) accepts the fields (schemas/insight_card.py)
InsightCardValid(title, impact, confidence_score, source) ==
    /\ Len(title) >= 1
    /\ impact \in Impacts
    /\ confidence_score >= 0 /\ confidence_score <= 100
    /\ Len(source) >= 1

\* one item of the loop of lines 228-291: [raised, cards], cards holding the
\* dict the item appends (none for an item that is not a dict)
NormalizeItem(c, i) ==
    IF ~c.isdict THEN [raised |-> FALSE, cards |-> <<>>]
    ELSE
      LET src == NormSource(c)
          title == OrElse(c.title, CardN(i))
          impact == OrElse(c.impact, <<"neutral">>)
      IN  IF c.confidence_score.k # "bad"
             /\ InsightCardValid(title, impact, IntOf(c.confidence_score), src)
          THEN [raised |-> FALSE,
                cards |-> << [title |-> JStr(title), impact |-> impact,
                              confidence_score |-> IntOf(c.confidence_score),
                              source |-> src] >>]
          ELSE \* except Exception: the item is kept with its raw fields
               IF c.confidence_score.k = "bad"
               THEN [raised |-> TRUE, cards |-> <<>>]
               ELSE [raised |-> FALSE,
                     cards |-> << [title |-> IF c.title.k = "missing"
                                             THEN JStr(CardN(i)) ELSE c.title,
                                   impact |-> impact,
                                   confidence_score |-> IntOf(c.confidence_score),
                                   source |-> src] >>]

RECURSIVE NormalizeFrom(_, _)
NormalizeFrom(raw_cards, i) ==
    IF i >= Len(raw_cards) THEN [raised |-> FALSE, cards |-> <<>>]
    ELSE LET one == NormalizeItem(raw_cards[i + 1], i)
         IN  IF one.raised THEN [raised |-> TRUE, cards |-> <<>>]
             ELSE LET rest == NormalizeFrom(raw_cards, i + 1)
                  IN  [raised |-> rest.raised,
                       cards |-> IF rest.raised THEN <<>> ELSE one.cards \o rest.cards]

\* _cards_from_llm_json(data, ...): data is the parsed payload
\*   [json |-> "object" | "nocards" | "nonobject", items |-> raw items];
\* "nocards" is an object whose "cards" is not a list, "nonobject" a JSON value
\* with no .get (a list, a string, a number)
CardsFromLlmJson(data) ==
    IF data.json = "nonobject" THEN [raised |-> TRUE, cards |-> <<>>]
    ELSE NormalizeFrom(IF data.json = "object" THEN data.items ELSE <<>>, 0)

(***************************************************************************)
(* Batch runner (research_agent.run_card_batch_streaming, run_card_batch)  *)
(*                                                                         *)
(* cfg is [openai_key, anthropic_enabled]: OPENAI_API_KEY is set, and      *)
(* _anthropic_enabled() (SDK imported and ANTHROPIC_API_KEY set).          *)
(* What the provider does in one batch is the input                        *)
(*   out = [call, json, items, searched, chunks]                           *)
(* call "error": the card-generation call raises; json: the answer is      *)
(* "invalid" JSON or one of the payload shapes of CardsFromLlmJson;        *)
(* searched: searches were run (the OpenAI model asked for web_search, the *)
(* Anthropic query-building call succeeded); chunks: text blocks streamed  *)
(* by the Anthropic SDK.                                                   *)
(* A result is [raised, cards, progress_messages, calls]: calls is the set *)
(* of external services the batch called.                                  *)
(***************************************************************************)
\* _normalize_provider
NormalizeProvider(llm_provider) ==
    IF llm_provider \in {"anthropic", "claude", "claude_sdk"} THEN "anthropic" ELSE "openai"

\* a (topic, message) pair of progress_messages; topic <<>> is None, n the
\* number a message formats
Progress(topic, message, n) == [topic |-> topic, message |-> message, n |-> n]

\* lines 422-425: one "Analyzing ..." message per topic of the batch
TopicProgress(card_topics_batch) ==
    [i \in 1..Len(card_topics_batch) |-> Progress(card_topics_batch[i], "Analyzing", 0)]

\* the placeholder dicts of lines 433-446, 455-468, 654-664 and 673-683
PlaceholderCards(card_topics_batch) ==
    [i \in 1..Len(card_topics_batch) |->
        [title |-> JStr(card_topics_batch[i]), impact |-> <<"neutral">>,
         confidence_score |-> 0, source |-> NotAvailable]]

\* a selection that falls back to OpenAI without looking for its key
ServingProviderAssumesOpenai(cfg, llm_provider) ==
    IF NormalizeProvider(llm_provider) = "anthropic" /\ cfg.anthropic_enabled
    THEN "anthropic" ELSE "openai"

\* the provider that serves the batch after the fallback of lines 427-450,
\* "none" when the lines return placeholders
ServingProvider(cfg, llm_provider) ==
    LET provider == NormalizeProvider(llm_provider)
    IN  IF provider = "anthropic" /\ cfg.anthropic_enabled THEN "anthropic"
        ELSE IF cfg.openai_key THEN "openai"
        ELSE "none"

\* "Claude is analyzing the data..." once per 8 text blocks (lines 585-588)
ChunkProgress(chunks) ==
    [i \in 1..(chunks \div 8) |-> Progress(<<>>, "Claude is analyzing the data...", 0)]

\* the parsed payload of an outcome
Payload(out) == [json |-> out.json, items |-> out.items]

RunCardBatchStreaming(cfg, llm_provider, card_topics_batch, out) ==
    LET serving == ServingProvider(cfg, llm_provider)
        first == TopicProgress(card_topics_batch)
    IN  IF serving = "none"
        THEN [raised |-> FALSE, cards |-> PlaceholderCards(card_topics_batch),
              progress_messages |-> first, calls |-> {}]
        ELSE IF serving = "openai"
        THEN LET calls == {"openai"} \cup (IF out.searched THEN {"tavily"} ELSE {})
                 p1 == Append(first, Progress(<<>>, "Searching the web for sources...", 0))
                 p2 == Append(p1, Progress(<<>>, "Processing with OpenAI...", 0))
             IN  IF out.call = "error"
                 THEN \* asyncio.to_thread(_openai_card_batch_with_tools) is not in a try
                      [raised |-> TRUE, cards |-> <<>>, progress_messages |-> p1,
                       calls |-> calls]
                 ELSE IF out.json = "invalid"
                 THEN [raised |-> FALSE, cards |-> <<>>, progress_messages |-> p2,
                       calls |-> calls]
                 ELSE LET got == CardsFromLlmJson(Payload(out))
                      IN  [raised |-> got.raised, cards |-> got.cards,
                           progress_messages |->
                               Append(p2, Progress(<<>>, "Completed analysis", Len(got.cards))),
                           calls |-> calls]
        ELSE LET calls == {"anthropic"} \cup (IF out.searched THEN {"tavily"} ELSE {})
                 p1 == Append(first, Progress(<<>>, "Preparing search queries...", 0))
                 p2 == IF out.searched
                       THEN Append(p1, Progress(<<>>, "Searching the web for sources...", 0))
                       ELSE p1
                 p3 == Append(p2, Progress(<<>>, "Processing with Claude...", 0))
             IN  IF out.call = "error"
                 THEN [raised |-> FALSE, cards |-> <<>>, progress_messages |-> p3,
                       calls |-> calls]
                 ELSE LET p4 == p3 \o ChunkProgress(out.chunks)
                      IN  IF out.json = "invalid"
                          THEN [raised |-> FALSE, cards |-> <<>>, progress_messages |-> p4,
                                calls |-> calls]
                          ELSE LET got == CardsFromLlmJson(Payload(out))
                               IN  [raised |-> got.raised, cards |-> got.cards,
                                    progress_messages |->
                                        Append(p4, Progress(<<>>, "Completed analysis",
                                                            Len(got.cards))),
                                    calls |-> calls]

\* run_card_batch: the same selection and parsing, no progress messages, the
\* provider called in the caller's thread
RunCardBatch(cfg, llm_provider, card_topics_batch, out) ==
    LET serving == ServingProvider(cfg, llm_provider)
    IN  IF serving = "none"
        THEN [raised |-> FALSE, cards |-> PlaceholderCards(card_topics_batch), calls |-> {}]
        ELSE LET calls == {serving} \cup (IF out.searched THEN {"tavily"} ELSE {})
             IN  IF out.call = "error"
                 THEN [raised |-> serving = "openai", cards |-> <<>>, calls |-> calls]
                 ELSE IF out.json = "invalid"
                 THEN [raised |-> FALSE, cards |-> <<>>, calls |-> calls]
                 ELSE LET got == CardsFromLlmJson(Payload(out))
                      IN  [raised |-> got.raised, cards |-> got.cards, calls |-> calls]

(***************************************************************************)
(* Dashboard summary (research_agent.get_dashboard_summary)                *)
(*                                                                         *)
(* Rents are whole numbers; a percentage is kept in hundredths of a        *)
(* percent, which is what round(x, 2) keeps of it.                         *)
(* What the provider does is the input dout = [attempts, fair, confidence, *)
(* ideal_term]: attempts is one outcome per model tried, each "ok",        *)
(* "error" (the call raises), "invalid" (not JSON) or "illtyped" (JSON     *)
(* whose numbers float()/int() reject); fair, confidence and ideal_term    *)
(* are what an "ok" answer carries.                                        *)
(***************************************************************************)
\* float(current_base_rent.replace(",", "").strip()), 42.0 on ValueError
ParseRent(current_base_rent) ==
    IF current_base_rent = "50" THEN 50
    ELSE IF current_base_rent = "1,000" THEN 1000
    ELSE IF current_base_rent = "0" THEN 0
    ELSE IF current_base_rent = "-50" THEN 0 - 50
    ELSE 42

\* the integer nearest to a / b (b > 0), a tie going to the even one
RoundDiv(a, b) ==
    LET q == a \div b
        r == a % b
    IN  IF 2 * r < b THEN q
        ELSE IF 2 * r > b THEN q + 1
        ELSE IF q % 2 = 0 THEN q ELSE q + 1

\* round((fair - current) / current * 100, 2) if current else 0.0, in hundredths
VsCurrentPct(fair, current) ==
    IF current = 0 THEN 0
    ELSE IF current > 0 THEN RoundDiv((fair - current) * 10000, current)
    ELSE RoundDiv((current - fair) * 10000, 0 - current)

\* the em dash (U+2014) the code uses as the placeholder value
Dash == <<"EM DASH">>

\* _minimal_dashboard
MinimalDashboard(current) ==
    [fair_market_rent |-> current, confidence_score |-> 0, vs_current_pct |-> 0,
     recommendations |-> [ideal_term |-> Dash, negotiation_leverage |-> Dash,
                          renewals |-> Dash],
     recommendations_source |-> "fallback"]

\* a dict that takes the provider's vs_current_pct
DashboardFromTrustsProvider(dout, current, source) ==
    [fair_market_rent |-> dout.fair, confidence_score |-> dout.confidence,
     vs_current_pct |-> dout.vs_current_pct,
     recommendations |-> [ideal_term |-> IF dout.ideal_term = <<>> THEN Dash
                                         ELSE dout.ideal_term,
                          negotiation_leverage |-> Dash, renewals |-> Dash],
     recommendations_source |-> source]

\* the dict built at lines 933-958 and 1033-1055 from a well-typed answer
DashboardFrom(dout, current, source) ==
    [fair_market_rent |-> dout.fair, confidence_score |-> dout.confidence,
     vs_current_pct |-> VsCurrentPct(dout.fair, current),
     recommendations |-> [ideal_term |-> IF dout.ideal_term = <<>> THEN Dash
                                         ELSE dout.ideal_term,
                          negotiation_leverage |-> Dash, renewals |-> Dash],
     recommendations_source |-> source]

\* a summary that asks the provider whether or not there are cards
GetDashboardSummaryAsksAnyway(cfg, llm_provider, current_base_rent, cards, dout) ==
    LET current == ParseRent(current_base_rent)
        serving == ServingProvider(cfg, llm_provider)
    IN  IF serving = "none"
        THEN [raised |-> FALSE, data |-> MinimalDashboard(current), calls |-> 0]
        ELSE [raised |-> FALSE, data |-> DashboardFrom(dout, current, serving), calls |-> 1]

\* [raised, data, calls]: calls is the number of provider calls made
GetDashboardSummary(cfg, llm_provider, current_base_rent, cards, dout) ==
    LET current == ParseRent(current_base_rent)
        serving == ServingProvider(cfg, llm_provider)
        minimal == MinimalDashboard(current)
    IN  IF serving = "none" \/ cards = <<>>
        THEN [raised |-> FALSE, data |-> minimal, calls |-> 0]
        ELSE IF serving = "openai"
        THEN \* DASHBOARD_SEARCH_MODEL, then DASHBOARD_FALLBACK_MODEL
             IF dout.attempts[1] = "ok"
             THEN [raised |-> FALSE, data |-> DashboardFrom(dout, current, "openai"),
                   calls |-> 1]
             ELSE IF dout.attempts[2] = "ok"
             THEN [raised |-> FALSE, data |-> DashboardFrom(dout, current, "openai"),
                   calls |-> 2]
             ELSE [raised |-> FALSE, data |-> minimal, calls |-> 2]
        ELSE IF dout.attempts[1] \in {"error", "invalid"}
        THEN [raised |-> FALSE, data |-> minimal, calls |-> 1]
        ELSE IF dout.attempts[1] = "illtyped"
        THEN \* lines 1020-1035 are outside the try
             [raised |-> TRUE, data |-> minimal, calls |-> 1]
        ELSE [raised |-> FALSE, data |-> DashboardFrom(dout, current, "anthropic"),
              calls |-> 1]

(***************************************************************************)
(* State                                                                   *)
(***************************************************************************)
VARIABLES
    now,        \* _now_s(): the clock
    sessions,   \* the sessions table of the store
    cfg,        \* the provider credentials of the process
    credits,    \* the balance of the one user of the external directory
    an,         \* the invocation of _stream_analysis
    cc,         \* the invocation of _stream_custom_card
    ed,         \* the invocation of _stream_edit_card
    issued,     \* the session ids uuid4 has handed out
    last,       \* the confirm request the store last took, while no other write followed
    fn          \* a call of a function of research_agent on its own: arguments, result

vars == <<now, sessions, cfg, credits, an, cc, ed, issued, last, fn>>

\* ids uuid4 hands out, and ids a client can send
SessionIds == {"s1"}
RequestIds == SessionIds \cup {"unknown"}

Idle == [pc |-> "idle"]

\* a stream invocation that has ended: a terminal event was sent ("done",
\* "error") or the generator died with an exception ("crashed")
Ended(flow) == flow.pc \in {"done", "error", "crashed"}
Active(flow) == flow.pc # "idle" /\ ~Ended(flow)

\* no function is called on its own
NoCall == [op |-> "none"]

\* no confirm has been taken since the last other write
NoConfirm == [times |-> 0]

\* the error event of lines 208, 479, 616, 622, 520, 660
ErrorEvent(message) == [type |-> "error", message |-> message]

(***************************************************************************)
(* POST /analyze/start (routes.analyze_start)                              *)
(***************************************************************************)
\* the form's llm_provider, normalized at lines 140-142
StartProvider(llm_provider) ==
    IF llm_provider \in {"openai", "anthropic"} THEN llm_provider ELSE "openai"

\* session_data of lines 186-195
SessionData(llm_provider, username) ==
    [analyze_as |-> "tenant", property_name |-> "Acme Plaza", address |-> "1 Main St",
     leasable_area |-> "1200", current_base_rent |-> "50", document_context |-> JNull,
     llm_provider |-> StartProvider(llm_provider), username |-> username]

\* what the external user directory does during one request:
\* allowed: is_user_allowed finds the user; read / reread: the GET of the row
\* in get_user_credits / decrement_user_credits succeeds; write: the PATCH does
DirectoryUp == [allowed |-> TRUE, read |-> TRUE, reread |-> TRUE, write |-> TRUE]

\* the directory works, or one of its exchanges fails
CreditOutcomes ==
    {DirectoryUp, [DirectoryUp EXCEPT !.read = FALSE], [DirectoryUp EXCEPT !.reread = FALSE],
     [DirectoryUp EXCEPT !.write = FALSE]}

\* the same, or the user is not in the directory
DirectoryOutcomes == CreditOutcomes \cup {[DirectoryUp EXCEPT !.allowed = FALSE]}

\* decrement_user_credits(username, amount): the balance afterwards
DecrementUserCredits(balance, amount, io) ==
    IF ~io.reread THEN balance
    ELSE IF amount <= 0 THEN balance
    ELSE IF balance - amount < 0 THEN balance
    ELSE IF io.write THEN balance - amount ELSE balance

\* a gate that lets every request through
CreditGateNeverDenies(username, cost, with_allowed, balance, io) ==
    [denied |-> FALSE, credits |-> balance]

\* the credit gate of lines 145-167 (cost 2, with the allow-list check),
\* 547-565 and 715-734 (cost 1): [denied, credits]
CreditGate(username, cost, with_allowed, balance, io) ==
    IF ~Truthy(username) \/ ~cfg.supabase
    THEN [denied |-> FALSE, credits |-> balance]
    ELSE IF with_allowed /\ ~io.allowed
    THEN [denied |-> TRUE, credits |-> balance]
    ELSE IF ~io.read
    THEN \* get_user_credits returned None: no check, no deduction
         [denied |-> FALSE, credits |-> balance]
    ELSE IF balance < cost
    THEN [denied |-> TRUE, credits |-> balance]
    ELSE [denied |-> FALSE, credits |-> DecrementUserCredits(balance, cost, io)]

\* the usernames of the form: none, or the one user of the directory
Usernames == {JNull, JStr(<<"u">>)}

AnalyzeStart(sid, llm_provider, username, io) ==
    /\ sid \notin issued
    /\ issued' = issued \cup {sid}
    /\ LET gate == CreditGate(username, 2, TRUE, credits, io)
       IN  /\ credits' = gate.credits
           /\ IF gate.denied
              THEN /\ sessions' = sessions
                   /\ last' = last
              ELSE /\ sessions' = Put(sessions, sid, SessionData(llm_provider, username), now)
                   /\ last' = NoConfirm
    /\ UNCHANGED <<now, cfg, an, cc, ed, fn>>

(***************************************************************************)
(* GET /analyze/stream (routes._stream_analysis)                           *)
(*                                                                         *)
(* an = [pc, sid, ctx, batch_start, all_cards, seen_titles, events, log,   *)
(*       called, wrote]: events is the ndjson lines sent so far, log the   *)
(* (batch_index, returned, unique) triples of the logger.info of line 253, *)
(* called the external services called so far, wrote whether the           *)
(* invocation has written a session row.                                   *)
(***************************************************************************)
\* title_key of line 248
TitleKey(c) == Lower(Strip(OrElse(c.title, <<>>)))

\* a dedup that drops empty titles only: every titled card is kept
RECURSIVE DedupKeepsRepeats(_, _)
DedupKeepsRepeats(cards, seen) ==
    IF cards = <<>> THEN [unique_cards |-> <<>>, seen_titles |-> seen]
    ELSE LET c == Head(cards)
             rest == DedupKeepsRepeats(Tail(cards), seen \cup {TitleKey(c)})
         IN  IF TitleKey(c) # <<>>
             THEN [unique_cards |-> <<c>> \o rest.unique_cards,
                   seen_titles |-> rest.seen_titles]
             ELSE DedupKeepsRepeats(Tail(cards), seen)

\* lines 246-251: [unique_cards, seen_titles] after the cards of one batch
RECURSIVE Dedup(_, _)
Dedup(cards, seen) ==
    IF cards = <<>> THEN [unique_cards |-> <<>>, seen_titles |-> seen]
    ELSE LET c == Head(cards)
             title_key == TitleKey(c)
         IN  IF title_key # <<>> /\ title_key \notin seen
             THEN LET rest == Dedup(Tail(cards), seen \cup {title_key})
                  IN  [unique_cards |-> <<c>> \o rest.unique_cards,
                       seen_titles |-> rest.seen_titles]
             ELSE Dedup(Tail(cards), seen)

\* the progress lines sent last message first
ProgressEventsReversed(progress_messages) ==
    [i \in 1..Len(progress_messages) |->
        [type |-> "progress",
         message |-> progress_messages[Len(progress_messages) + 1 - i].message,
         n |-> progress_messages[Len(progress_messages) + 1 - i].n,
         topic |-> progress_messages[Len(progress_messages) + 1 - i].topic]]

\* line 244: one progress line per (topic, message) pair
ProgressEvents(progress_messages) ==
    [i \in 1..Len(progress_messages) |->
        [type |-> "progress", message |-> progress_messages[i].message,
         n |-> progress_messages[i].n, topic |-> progress_messages[i].topic]]

\* the payload of lines 268-276
DashboardPayload(dashboard_data, ctx) ==
    DictUpdate(dashboard_data,
     [property |-> [name |-> ctx.property_name, address |-> ctx.address,
                   leasable_area |-> ctx.leasable_area,
                   current_base_rent |-> ctx.current_base_rent]])

\* the entries of ctx (the session dict of line 206) the generator reads
CtxKeys == {"property_name", "address", "leasable_area", "current_base_rent",
            "document_context", "llm_provider"}

\* lines 206-220
StreamAnalysisStart(sid) ==
    /\ an.pc = "idle"
    /\ LET session == Get(sessions, sid, now)
       IN  /\ sessions' = GetTable(sessions, sid, now)
           /\ IF ~session.found
              THEN an' = [pc |-> "error", sid |-> sid,
                          events |-> <<ErrorEvent("Session not found")>>,
                          called |-> {}, wrote |-> FALSE]
              ELSE an' = [pc |-> "batch", sid |-> sid, ctx |-> Restrict(session.data, CtxKeys),
                          batch_start |-> 0, all_cards |-> <<>>, seen_titles |-> {},
                          events |-> <<>>, log |-> <<>>, called |-> {}, wrote |-> FALSE]
    /\ UNCHANGED <<now, cfg, credits, cc, ed, issued, last, fn>>

\* one turn of the loop of lines 222-255, for what the provider does in it
StreamAnalysisBatch(out) ==
    /\ an.pc = "batch"
    /\ LET batch_topics == Slice(CARD_TOPICS, an.batch_start, an.batch_start + BATCH_SIZE)
           batch_index == (an.batch_start \div BATCH_SIZE) + 1
           got == RunCardBatchStreaming(cfg, DictGet(an.ctx, "llm_provider", "openai"),
                                        batch_topics, out)
       IN  IF got.raised
           THEN an' = [an EXCEPT !.pc = "crashed", !.called = @ \cup got.calls]
           ELSE LET dd == Dedup(got.cards, an.seen_titles)
                    sent == ProgressEvents(got.progress_messages) \o
                            (IF dd.unique_cards # <<>>
                             THEN << [type |-> "cards", cards |-> dd.unique_cards,
                                      batch_index |-> batch_index] >>
                             ELSE <<>>)
                    next_start == an.batch_start + BATCH_SIZE
                IN  an' = [an EXCEPT
                              !.pc = IF next_start < Len(CARD_TOPICS) THEN "batch"
                                     ELSE "dashboard",
                              !.batch_start = next_start,
                              !.all_cards = @ \o dd.unique_cards,
                              !.seen_titles = dd.seen_titles,
                              !.events = @ \o sent,
                              !.log = Append(@, [batch_index |-> batch_index,
                                                 returned |-> Len(got.cards),
                                                 unique |-> Len(dd.unique_cards)]),
                              !.called = @ \cup got.calls]
    /\ UNCHANGED <<now, sessions, cfg, credits, cc, ed, issued, last, fn>>

\* lines 257-277: the summary, the patch, the dashboard line
StreamAnalysisDashboard(dout) ==
    /\ an.pc = "dashboard"
    /\ LET got == GetDashboardSummary(cfg, DictGet(an.ctx, "llm_provider", "openai"),
                                      an.ctx.current_base_rent, an.all_cards, dout)
           patched == Patch(sessions, an.sid,
                            [dashboard_summary |-> got.data, cards |-> an.all_cards], now)
           called == an.called \cup (IF got.calls > 0 THEN {"dashboard"} ELSE {})
       IN  IF got.raised
           THEN /\ an' = [an EXCEPT !.pc = "crashed", !.called = called]
                /\ UNCHANGED <<sessions, last>>
           ELSE /\ sessions' = patched.table
                /\ last' = IF patched.found THEN NoConfirm ELSE last
                /\ an' = [an EXCEPT
                             !.pc = "emit_done",
                             !.called = called,
                             !.wrote = patched.found,
                             !.events = Append(@, [type |-> "dashboard",
                                                   data |-> DashboardPayload(got.data, an.ctx)])]
    /\ UNCHANGED <<now, cfg, credits, cc, ed, issued, fn>>

\* line 278
StreamAnalysisDone ==
    /\ an.pc = "emit_done"
    /\ an' = [an EXCEPT !.pc = "done", !.events = Append(@, [type |-> "done"])]
    /\ UNCHANGED <<now, sessions, cfg, credits, cc, ed, issued, last, fn>>

\* time passes
Tick ==
    /\ now < MaxTime
    /\ now' = now + 1
    /\ UNCHANGED <<sessions, cfg, credits, an, cc, ed, issued, last, fn>>

(***************************************************************************)
(* Inputs                                                                  *)
(***************************************************************************)
\* the sequences over S of length at most n
SeqsUpTo(S, n) == UNION {[1..k -> S] : k \in 0..n}

\* raw titles: two spellings of one title, and white space only
TitlePool == {JStr(<<"A">>), JStr(<<"a", " ">>), JStr(<<" ">>)}

RawItem(title) ==
    [isdict |-> TRUE, title |-> title, impact |-> JStr(<<"positive">>),
     confidence_score |-> JInt(80), source |-> JStr(<<"CoStar">>)]

\* one valid item per topic of the batch, titled by the topic
TopicItems(card_topics_batch) ==
    [i \in 1..Len(card_topics_batch) |-> RawItem(JStr(card_topics_batch[i]))]

Outcome(call, json, items, searched, chunks) ==
    [call |-> call, json |-> json, items |-> items, searched |-> searched, chunks |-> chunks]

\* what a provider can do in the batch of the given topics: fail, answer
\* with something that is not the expected object, answer one card per topic
\* (after searches, in 8 text blocks), or answer any short list of pool items
BatchOutcomes(card_topics_batch) ==
    {Outcome("error", "invalid", <<>>, FALSE, 0),
     Outcome("ok", "invalid", <<>>, TRUE, 0),
     Outcome("ok", "nonobject", <<>>, FALSE, 0),
     Outcome("ok", "nocards", <<>>, FALSE, 0),
     Outcome("ok", "object", TopicItems(card_topics_batch), TRUE, 8)}
    \cup {Outcome("ok", "object", items, FALSE, 0) :
            items \in SeqsUpTo({RawItem(t) : t \in TitlePool}, MaxRawCards)}

\* what a provider can do for the dashboard
DashboardOutcomes ==
    [attempts : [1..2 -> {"ok", "error", "invalid", "illtyped"}],
     fair : {60}, confidence : {70}, ideal_term : {<<"5 Years">>}]

(***************************************************************************)
(* The analysis stream on its own: one session, the three provider         *)
(* configurations, every provider outcome per batch                        *)
(***************************************************************************)
Configs == [openai_key : BOOLEAN, anthropic_enabled : BOOLEAN, supabase : BOOLEAN]

InitAnalysis ==
    /\ now = 0
    /\ sessions = <<>>
    /\ cfg \in {c \in Configs : ~c.supabase}
    /\ credits = 0
    /\ an = Idle /\ cc = Idle /\ ed = Idle
    /\ issued = {}
    /\ last = NoConfirm
    /\ fn = NoCall

NextAnalysis ==
    \/ \E sid \in SessionIds, p \in {"openai", "anthropic"} :
          AnalyzeStart(sid, p, JNull, CHOOSE io \in DirectoryOutcomes : TRUE)
    \/ \E sid \in RequestIds : StreamAnalysisStart(sid)
    \/ /\ an.pc = "batch"
       /\ \E out \in BatchOutcomes(Slice(CARD_TOPICS, an.batch_start,
                                         an.batch_start + BATCH_SIZE)) :
             StreamAnalysisBatch(out)
    \/ \E dout \in DashboardOutcomes : StreamAnalysisDashboard(dout)
    \/ StreamAnalysisDone

SpecAnalysis == InitAnalysis /\ [][NextAnalysis]_vars

(***************************************************************************)
(* Card generation for one prompt and card editing                         *)
(* (research_agent.create_custom_card_from_topic and                       *)
(* research_agent.edit_insight_card_with_llm, which routes.py imports).    *)
(* Each is one provider exchange that returns a card dict or raises; what  *)
(* the provider does is the input res = [raised, card].  The session       *)
(* argument is text for the prompt and is left out.                        *)
(***************************************************************************)
CreateCustomCardFromTopic(prompt, res) == res

EditInsightCardWithLlm(original, prompt, res) == res

(***************************************************************************)
(* The stored card collections                                             *)
(***************************************************************************)
\* (body.source or "").strip().lower()
NormalizeSource(source) == Lower(Strip(source))

ValidSources == {<<"validation">>, <<"custom">>}

\* key = "cards" if source == "validation" else "custom_cards"
CardsKey(source) == IF source = <<"validation">> THEN "cards" ELSE "custom_cards"

\* session.get(key) or []
CardsList(session, key) == DictGet(session, key, <<>>)

\* 0 <= card_index < len(cards_list)
InRange(card_index, cards_list) == 0 <= card_index /\ card_index < Len(cards_list)

\* the list with the card appended instead of put at the index
ReplaceAtAppends(cards_list, card_index, card) == Append(cards_list, card)

\* cards_list[card_index] = card
ReplaceAt(cards_list, card_index, card) == [cards_list EXCEPT ![card_index + 1] = card]

(***************************************************************************)
(* POST /custom-cards/{card_index}/confirm (routes.confirm_card_edit)      *)
(***************************************************************************)
\* the whole handler on a table and a balance at time t:
\* [status, table, credits]
ConfirmCardEditResult(table, balance, sid, card_index, body_source, updated_card, io, t) ==
    LET session == Get(table, sid, t)
        cleaned == GetTable(table, sid, t)
        source == NormalizeSource(body_source)
    IN  IF ~session.found
        THEN [status |-> 404, table |-> cleaned, credits |-> balance]
        ELSE IF source \notin ValidSources
        THEN [status |-> 400, table |-> cleaned, credits |-> balance]
        ELSE LET gate == CreditGate(DictGet(session.data, "username", JNull), 1, FALSE,
                                    balance, io)
                 key == CardsKey(source)
                 cards_list == CardsList(session.data, key)
             IN  IF gate.denied
                 THEN [status |-> 403, table |-> cleaned, credits |-> gate.credits]
                 ELSE IF ~InRange(card_index, cards_list)
                 THEN [status |-> 404, table |-> cleaned, credits |-> gate.credits]
                 ELSE [status |-> 200,
                       table |-> Patch(cleaned, sid,
                                       key :> ReplaceAt(cards_list, card_index, updated_card),
                                       t).table,
                       credits |-> gate.credits]

ConfirmCardEdit(sid, card_index, body_source, updated_card, io) ==
    /\ LET r == ConfirmCardEditResult(sessions, credits, sid, card_index, body_source,
                                      updated_card, io, now)
       IN  /\ sessions' = r.table
           /\ credits' = r.credits
           /\ last' = IF r.status # 200 THEN last
                      ELSE LET request == [sid |-> sid, card_index |-> card_index,
                                           source |-> NormalizeSource(body_source),
                                           updated_card |-> updated_card]
                           IN  IF last.times > 0 /\ last.request = request
                               THEN [times |-> 2, request |-> request]
                               ELSE [times |-> 1, request |-> request]
    /\ UNCHANGED <<now, cfg, an, cc, ed, issued, fn>>

(***************************************************************************)
(* POST /custom-cards/{card_index}/edit (routes.edit_custom_card)          *)
(***************************************************************************)
EditCustomCard(sid, card_index, prompt, body_source, res) ==
    /\ LET session == Get(sessions, sid, now)
           cleaned == GetTable(sessions, sid, now)
           source == NormalizeSource(body_source)
           key == CardsKey(source)
           cards_list == CardsList(session.data, key)
       IN  IF ~session.found
           THEN sessions' = cleaned /\ last' = last
           ELSE IF Strip(prompt) = <<>> \/ source \notin ValidSources
           THEN sessions' = cleaned /\ last' = last
           ELSE IF ~InRange(card_index, cards_list)
           THEN sessions' = cleaned /\ last' = last
           ELSE LET updated == EditInsightCardWithLlm(cards_list[card_index + 1],
                                                          Strip(prompt), res)
                IN  IF updated.raised
                    THEN sessions' = cleaned /\ last' = last
                    ELSE /\ sessions' = Patch(cleaned, sid,
                                              key :> ReplaceAt(cards_list, card_index,
                                                               updated.card),
                                              now).table
                         /\ last' = NoConfirm
    /\ UNCHANGED <<now, cfg, credits, an, cc, ed, issued, fn>>

(***************************************************************************)
(* POST /custom-cards (routes.create_custom_card)                          *)
(***************************************************************************)
CreateCustomCard(sid, prompt, res) ==
    /\ LET session == Get(sessions, sid, now)
           cleaned == GetTable(sessions, sid, now)
       IN  IF ~session.found
           THEN sessions' = cleaned /\ last' = last
           ELSE IF Strip(prompt) = <<>>
           THEN sessions' = cleaned /\ last' = last
           ELSE LET made == CreateCustomCardFromTopic(Strip(prompt), res)
                    existing == CardsList(session.data, "custom_cards")
                IN  /\ Len(existing) < MaxCustomCards
                    /\ IF made.raised
                       THEN sessions' = cleaned /\ last' = last
                       ELSE /\ sessions' = Patch(cleaned, sid,
                                                 [custom_cards |-> Append(existing, made.card)],
                                                 now).table
                            /\ last' = NoConfirm
    /\ UNCHANGED <<now, cfg, credits, an, cc, ed, issued, fn>>

(***************************************************************************)
(* POST /analyze/chat (routes.analyze_chat)                                *)
(***************************************************************************)
\* lines 361-363: body.llm_provider.strip().lower(), "openai" unless it is
\* one of the two providers
ChatProvider(llm_provider) ==
    IF Lower(Strip(llm_provider)) = <<"anthropic">> THEN "anthropic" ELSE "openai"

\* lines 348-373: the only write is the patch of llm_provider; answer_chat
\* reads the dict of line 348 and returns the reply
AnalyzeChat(sid, message, llm_provider) ==
    /\ LET session == Get(sessions, sid, now)
           cleaned == GetTable(sessions, sid, now)
       IN  IF ~session.found
           THEN sessions' = cleaned /\ last' = last
           ELSE IF Strip(message) = <<>>
           THEN sessions' = cleaned /\ last' = last
           ELSE IF Truthy(llm_provider)
           THEN /\ sessions' = Patch(cleaned, sid,
                                     [llm_provider |-> ChatProvider(llm_provider.s)],
                                     now).table
                /\ last' = NoConfirm
           ELSE sessions' = cleaned /\ last' = last
    /\ UNCHANGED <<now, cfg, credits, an, cc, ed, issued, fn>>

\* lines 348 and 371 with answer_chat (research_agent.py 1171-1193): the
\* provider that writes the reply of a chat request for session sid, chosen
\* from the llm_provider of the dict read at line 348, "none" when the reply
\* is the "Chat is not configured" text
AnalyzeChatReply(sid) ==
    ServingProvider(cfg, DictGet(Get(sessions, sid, now).data, "llm_provider", "openai"))

(***************************************************************************)
(* POST /custom-cards/stream (routes.create_custom_card_stream and         *)
(* routes._stream_custom_card)                                             *)
(*                                                                         *)
(* cc = [pc, sid, prompt, session, step_index, events, called, wrote]:     *)
(* "accepted" after the route has answered with the StreamingResponse,     *)
(* "waiting" while the generator waits for llm_task.  session is the dict  *)
(* read at line 477, of which the generator reads "custom_cards".          *)
(***************************************************************************)
\* thinking_steps of lines 488-498 (the ellipsis written as three dots)
CustomThinkingSteps ==
    << "Reviewing lease context and property details...",
       "Searching for comparable market data...",
       "Querying recent transaction comps...",
       "Analyzing vacancy and demand trends...",
       "Cross-referencing benchmark figures...",
       "Evaluating negotiation leverage signals...",
       "Structuring insight card fields...",
       "Validating data evidence...",
       "Finalising card content..." >>

\* a progress line that stays on the last message once the list is used up
ThinkingEventNoWrap(thinking_steps, step_index) ==
    [type |-> "progress",
     message |-> thinking_steps[IF step_index < Len(thinking_steps)
                                THEN step_index + 1 ELSE Len(thinking_steps)]]

\* thinking_steps[step_index % len(thinking_steps)] as a progress line
ThinkingEvent(thinking_steps, step_index) ==
    [type |-> "progress", message |-> thinking_steps[(step_index % Len(thinking_steps)) + 1]]

\* lines 540-571
CreateCustomCardStream(sid, prompt, io) ==
    /\ cc.pc = "idle"
    /\ LET session == Get(sessions, sid, now)
           gate == CreditGate(DictGet(session.data, "username", JNull), 1, FALSE, credits, io)
       IN  /\ sessions' = GetTable(sessions, sid, now)
           /\ IF ~session.found
              THEN UNCHANGED <<credits, cc>>
              ELSE IF Strip(prompt) = <<>>
              THEN UNCHANGED <<credits, cc>>
              ELSE /\ Len(CardsList(session.data, "custom_cards")) < MaxCustomCards
                   /\ credits' = gate.credits
                   /\ IF gate.denied
                      THEN cc' = cc
                      ELSE cc' = [pc |-> "accepted", sid |-> sid, prompt |-> Strip(prompt)]
    /\ UNCHANGED <<now, cfg, an, ed, issued, last, fn>>

\* lines 477-505: the session is read, the task is started, the first
\* progress line is sent
StreamCustomCardStart ==
    /\ cc.pc = "accepted"
    /\ LET session == Get(sessions, cc.sid, now)
       IN  /\ sessions' = GetTable(sessions, cc.sid, now)
           /\ IF ~session.found
              THEN cc' = [pc |-> "error", sid |-> cc.sid,
                          events |-> <<ErrorEvent("Session not found")>>,
                          called |-> {}, wrote |-> FALSE]
              ELSE cc' = [pc |-> "waiting", sid |-> cc.sid, prompt |-> cc.prompt,
                          session |-> Restrict(session.data, {"custom_cards"}),
                          step_index |-> 1,
                          events |-> <<ThinkingEvent(CustomThinkingSteps, 0)>>,
                          called |-> {"create_custom_card_from_topic"}, wrote |-> FALSE]
    /\ UNCHANGED <<now, cfg, credits, an, ed, issued, last, fn>>

\* lines 502-511: 3 s have passed and the task is still running
StreamCustomCardTimeout ==
    /\ cc.pc = "waiting"
    /\ cc.step_index < MaxProgressTicks
    /\ cc' = [cc EXCEPT !.events = Append(@, ThinkingEvent(CustomThinkingSteps, cc.step_index)),
                        !.step_index = @ + 1]
    /\ UNCHANGED <<now, sessions, cfg, credits, an, ed, issued, last, fn>>

\* a custom-card stream that takes a failed task's result for a card
StreamCustomCardFinishIgnoresFailure(res) ==
    /\ cc.pc = "waiting"
    /\ LET existing == Append(CardsList(cc.session, "custom_cards"), res.card)
           patched == Patch(sessions, cc.sid, [custom_cards |-> existing], now)
       IN  /\ sessions' = patched.table
           /\ last' = IF patched.found THEN NoConfirm ELSE last
           /\ cc' = [cc EXCEPT !.pc = "done",
                               !.wrote = patched.found,
                               !.events = Append(@, [type |-> "done", card |-> res.card,
                                                     index |-> Len(existing) - 1])]
    /\ UNCHANGED <<now, cfg, credits, an, ed, issued, fn>>

\* lines 507-530: the task has ended with res
StreamCustomCardFinish(res) ==
    /\ cc.pc = "waiting"
    /\ LET made == CreateCustomCardFromTopic(cc.prompt, res)
           existing == Append(CardsList(cc.session, "custom_cards"), made.card)
           patched == Patch(sessions, cc.sid, [custom_cards |-> existing], now)
       IN  IF made.raised
           THEN /\ cc' = [cc EXCEPT !.pc = "error",
                                    !.events = Append(@, ErrorEvent("Failed to create custom card"))]
                /\ UNCHANGED <<sessions, last>>
           ELSE /\ sessions' = patched.table
                /\ last' = IF patched.found THEN NoConfirm ELSE last
                /\ cc' = [cc EXCEPT !.pc = "done",
                                    !.wrote = patched.found,
                                    !.events = Append(@, [type |-> "done", card |-> made.card,
                                                          index |-> Len(existing) - 1])]
    /\ UNCHANGED <<now, cfg, credits, an, ed, issued, fn>>

(***************************************************************************)
(* POST /custom-cards/{card_index}/edit/stream                             *)
(* (routes.edit_custom_card_stream and routes._stream_edit_card)           *)
(*                                                                         *)
(* ed = [pc, sid, card_index, source, prompt, original, step_index,        *)
(*       events, called, wrote]                                            *)
(***************************************************************************)
\* thinking_steps of lines 631-641
EditThinkingSteps ==
    << "Reading original card context...",
       "Analysing your refinement request...",
       "Searching for supporting market data...",
       "Cross-referencing lease benchmarks...",
       "Drafting updated insight...",
       "Revising data evidence...",
       "Updating negotiation context...",
       "Recalculating confidence score...",
       "Finalising revised card..." >>

\* lines 679-693
EditCustomCardStream(sid, card_index, prompt, body_source) ==
    /\ ed.pc = "idle"
    /\ LET session == Get(sessions, sid, now)
           source == NormalizeSource(body_source)
       IN  /\ sessions' = GetTable(sessions, sid, now)
           /\ IF ~session.found
              THEN ed' = ed
              ELSE IF Strip(prompt) = <<>> \/ source \notin ValidSources
              THEN ed' = ed
              ELSE ed' = [pc |-> "accepted", sid |-> sid, card_index |-> card_index,
                          source |-> source, prompt |-> Strip(prompt)]
    /\ UNCHANGED <<now, cfg, credits, an, cc, issued, last, fn>>

\* lines 614-647
StreamEditCardStart ==
    /\ ed.pc = "accepted"
    /\ LET session == Get(sessions, ed.sid, now)
           cards_list == CardsList(session.data, CardsKey(ed.source))
           ended(message) == [pc |-> "error", sid |-> ed.sid,
                              events |-> <<ErrorEvent(message)>>,
                              called |-> {}, wrote |-> FALSE]
       IN  /\ sessions' = GetTable(sessions, ed.sid, now)
           /\ IF ~session.found
              THEN ed' = ended("Session not found")
              ELSE IF ~InRange(ed.card_index, cards_list)
              THEN ed' = ended("Card not found")
              ELSE ed' = [pc |-> "waiting", sid |-> ed.sid, card_index |-> ed.card_index,
                          source |-> ed.source, prompt |-> ed.prompt,
                          original |-> cards_list[ed.card_index + 1], step_index |-> 1,
                          events |-> <<ThinkingEvent(EditThinkingSteps, 0)>>,
                          called |-> {"edit_insight_card_with_llm"}, wrote |-> FALSE]
    /\ UNCHANGED <<now, cfg, credits, an, cc, issued, last, fn>>

\* lines 644-652
StreamEditCardTimeout ==
    /\ ed.pc = "waiting"
    /\ ed.step_index < MaxProgressTicks
    /\ ed' = [ed EXCEPT !.events = Append(@, ThinkingEvent(EditThinkingSteps, ed.step_index)),
                        !.step_index = @ + 1]
    /\ UNCHANGED <<now, sessions, cfg, credits, an, cc, issued, last, fn>>

\* an edit stream that stores the card it proposes
StreamEditCardFinishPersists(res) ==
    /\ ed.pc = "waiting"
    /\ ~res.raised
    /\ LET key == CardsKey(ed.source)
           cards_list == CardsList(Get(sessions, ed.sid, now).data, key)
       IN  /\ InRange(ed.card_index, cards_list)
           /\ sessions' = Patch(sessions, ed.sid,
                                key :> ReplaceAt(cards_list, ed.card_index, res.card),
                                now).table
    /\ ed' = [ed EXCEPT !.pc = "done",
                        !.events = Append(@, [type |-> "done", original |-> ed.original,
                                              updated |-> res.card, index |-> ed.card_index,
                                              source |-> ed.source])]
    /\ UNCHANGED <<now, cfg, credits, an, cc, issued, last, fn>>

\* lines 656-670
StreamEditCardFinish(res) ==
    /\ ed.pc = "waiting"
    /\ LET updated == EditInsightCardWithLlm(ed.original, ed.prompt, res)
       IN  IF updated.raised
           THEN ed' = [ed EXCEPT !.pc = "error",
                                 !.events = Append(@, ErrorEvent("Failed to update card"))]
           ELSE ed' = [ed EXCEPT !.pc = "done",
                                 !.events = Append(@, [type |-> "done",
                                                       original |-> ed.original,
                                                       updated |-> updated.card,
                                                       index |-> ed.card_index,
                                                       source |-> ed.source])]
    /\ UNCHANGED <<now, sessions, cfg, credits, an, cc, issued, last, fn>>

(***************************************************************************)
(* The end of a StreamingResponse: the generator has returned or died and  *)
(* the response is closed                                                  *)
(***************************************************************************)
StreamAnalysisEnd ==
    /\ Ended(an)
    /\ an' = Idle
    /\ UNCHANGED <<now, sessions, cfg, credits, cc, ed, issued, last, fn>>

StreamCustomCardEnd ==
    /\ Ended(cc)
    /\ cc' = Idle
    /\ UNCHANGED <<now, sessions, cfg, credits, an, ed, issued, last, fn>>

StreamEditCardEnd ==
    /\ Ended(ed)
    /\ ed' = Idle
    /\ UNCHANGED <<now, sessions, cfg, credits, an, cc, issued, last, fn>>

(***************************************************************************)
(* The service: every route, one stream open at a time, the clock          *)
(***************************************************************************)
\* the card a provider proposes, by its title
PoolCard(title) ==
    [title |-> JStr(title), impact |-> <<"neutral">>, confidence_score |-> 50,
     source |-> <<"CoStar">>]

\* the cards a custom-card or edit exchange can return, and the bodies a
\* client can confirm
EditCards == {PoolCard(<<"A">>), PoolCard(<<"B">>)}

\* an edit exchange raises, or returns one of the cards
EditResults ==
    {[raised |-> TRUE, card |-> PoolCard(<<"A">>)]}
    \cup {[raised |-> FALSE, card |-> c] : c \in EditCards}

\* a custom-card exchange raises, or returns the card the prompt asks for
CreateResults ==
    {[raised |-> TRUE, card |-> PoolCard(<<"A">>)], [raised |-> FALSE, card |-> PoolCard(<<"A">>)]}

\* the second card of a collection, and an index past every collection
CardIndexes == {1, Len(CARD_TOPICS)}

\* the requests of a client.  A request for a session the store does not
\* have, one with a blank prompt and one with a source that is neither
\* collection are each sent in one form: the route answers them before it
\* reads anything else of the request.
Sources == {<<"validation">>, <<"Custom", " ">>}

Request(sid, card_index, prompt, source, card, res, io) ==
    [sid |-> sid, card_index |-> card_index, prompt |-> prompt, source |-> source,
     card |-> card, res |-> res, io |-> io]

AnyResult == [raised |-> FALSE, card |-> PoolCard(<<"A">>)]

BadRequests ==
    {Request("unknown", 0, <<"p">>, <<"validation">>, PoolCard(<<"A">>), AnyResult, DirectoryUp),
     Request("s1", 0, <<" ">>, <<"other">>, PoolCard(<<"A">>), AnyResult, DirectoryUp)}

ConfirmRequests ==
    BadRequests \cup
    {Request(sid, i, <<"p">>, source, c, AnyResult, io) :
        sid \in SessionIds, i \in CardIndexes, source \in Sources, c \in EditCards,
        io \in {DirectoryUp}}

EditRequests ==
    BadRequests \cup
    {Request(sid, i, <<"p">>, source, PoolCard(<<"A">>), res, DirectoryUp) :
        sid \in SessionIds, i \in CardIndexes, source \in Sources, res \in EditResults}

EditStreamRequests ==
    BadRequests \cup
    {Request(sid, i, <<"p">>, source, PoolCard(<<"A">>), AnyResult, DirectoryUp) :
        sid \in SessionIds, i \in CardIndexes, source \in Sources}

CreateRequests ==
    BadRequests \cup
    {Request(sid, 0, <<"p">>, <<"custom">>, PoolCard(<<"A">>), res, DirectoryUp) :
        sid \in SessionIds, res \in CreateResults}

CreateStreamRequests ==
    BadRequests \cup
    {Request(sid, 0, <<"p">>, <<"custom">>, PoolCard(<<"A">>), AnyResult, io) :
        sid \in SessionIds, io \in {DirectoryUp}}

\* the provider answers every batch with one valid card per topic
ServiceBatchOutcomes(card_topics_batch) ==
    {Outcome("ok", "object", TopicItems(card_topics_batch), TRUE, 0)}

\* the dashboard exchange works at once
ServiceDashboardOutcomes == {d \in DashboardOutcomes : d.attempts = [i \in 1..2 |-> "ok"]}

NoStream == an.pc = "idle" /\ cc.pc = "idle" /\ ed.pc = "idle"

Init ==
    /\ now = 0
    /\ sessions = <<>>
    /\ cfg \in {c \in Configs : c.openai_key /\ c.anthropic_enabled /\ c.supabase}
    /\ credits = MaxCredits
    /\ an = Idle /\ cc = Idle /\ ed = Idle
    /\ issued = {}
    /\ last = NoConfirm
    /\ fn = NoCall

Next ==
    \/ \E sid \in SessionIds : AnalyzeStart(sid, "openai", JNull, DirectoryUp)
    \/ NoStream /\ \E sid \in RequestIds : StreamAnalysisStart(sid)
    \/ /\ an.pc = "batch"
       /\ \E out \in ServiceBatchOutcomes(Slice(CARD_TOPICS, an.batch_start,
                                                an.batch_start + BATCH_SIZE)) :
             StreamAnalysisBatch(out)
    \/ \E dout \in ServiceDashboardOutcomes : StreamAnalysisDashboard(dout)
    \/ StreamAnalysisDone
    \/ StreamAnalysisEnd
    \/ NoStream /\ \E r \in CreateStreamRequests : CreateCustomCardStream(r.sid, r.prompt, r.io)
    \/ StreamCustomCardStart
    \/ StreamCustomCardTimeout
    \/ \E res \in CreateResults : StreamCustomCardFinish(res)
    \/ StreamCustomCardEnd
    \/ NoStream /\ \E r \in EditStreamRequests :
          EditCustomCardStream(r.sid, r.card_index, r.prompt, r.source)
    \/ StreamEditCardStart
    \/ StreamEditCardTimeout
    \/ \E res \in EditResults : StreamEditCardFinish(res)
    \/ StreamEditCardEnd
    \/ \E r \in ConfirmRequests : ConfirmCardEdit(r.sid, r.card_index, r.source, r.card, r.io)
    \/ \E r \in EditRequests : EditCustomCard(r.sid, r.card_index, r.prompt, r.source, r.res)
    \/ \E r \in CreateRequests : CreateCustomCard(r.sid, r.prompt, r.res)
    \/ Tick

Spec == Init /\ [][Next]_vars

(***************************************************************************)
(* The confirm handler on its own: one live session as the flows leave it  *)
(* (with or without a username, validation cards and custom cards), a      *)
(* credit balance, the user directory configured or not                    *)
(***************************************************************************)
\* the session dicts a confirm can meet: session_data of analyze_start, then
\* "cards" as an analysis stream stores them and "custom_cards" as custom-card
\* creations store them
ConfirmSessions ==
    {DictUpdate(DictUpdate(SessionData("openai", u), cards), custom) :
        u \in Usernames,
        cards \in {<<>>, [cards |-> PlaceholderCards(CARD_TOPICS)]},
        custom \in {<<>>, [custom_cards |-> <<PoolCard(<<"A">>)>>],
                    [custom_cards |-> <<PoolCard(<<"A">>), PoolCard(<<"B">>)>>]}}

\* the confirm requests, with everything the user directory can do
ConfirmRequestsAnyDirectory ==
    BadRequests \cup
    {Request(sid, i, <<"p">>, source, c, AnyResult, io) :
        sid \in SessionIds, i \in CardIndexes, source \in Sources, c \in EditCards,
        io \in CreditOutcomes}

InitConfirm ==
    /\ now = 0
    /\ \E data \in ConfirmSessions : sessions = Put(<<>>, "s1", data, 0)
    /\ cfg \in {c \in Configs : c.openai_key /\ c.anthropic_enabled}
    /\ credits \in 0..MaxCredits
    /\ an = Idle /\ cc = Idle /\ ed = Idle
    /\ issued = {"s1"}
    /\ last = NoConfirm
    /\ fn = NoCall

NextConfirm ==
    \/ \E r \in ConfirmRequestsAnyDirectory :
          ConfirmCardEdit(r.sid, r.card_index, r.source, r.card, r.io)
    \/ Tick

SpecConfirm == InitConfirm /\ [][NextConfirm]_vars

\* range(0, len(CARD_TOPICS), BATCH_SIZE) has this many values
NumBatches == (Len(CARD_TOPICS) + BATCH_SIZE - 1) \div BATCH_SIZE

\* the topics of batch b (1-based)
BatchTopics(b) == Slice(CARD_TOPICS, (b - 1) * BATCH_SIZE, b * BATCH_SIZE)

(***************************************************************************)
(* The functions of research_agent called on their own: one call of        *)
(* _cards_from_llm_json, run_card_batch or run_card_batch_streaming, drawn *)
(* with its arguments, then run                                            *)
(***************************************************************************)
\* raw items of a "cards" list: the pool titles, an item with no title, an
\* item whose impact the schema rejects, an item whose confidence int()
\* rejects, and an item that is not a dict
RawItems ==
    {RawItem(t) : t \in TitlePool}
    \cup {RawItem(JMissing),
          [RawItem(JStr(<<"A">>)) EXCEPT !.impact = JStr(<<"mixed">>)],
          [RawItem(JStr(<<"A">>)) EXCEPT !.confidence_score = JBadInt],
          [RawItem(JNull) EXCEPT !.isdict = FALSE]}

\* the payloads handed to _cards_from_llm_json
Payloads ==
    {[json |-> "nonobject", items |-> <<>>], [json |-> "nocards", items |-> <<>>]}
    \cup {[json |-> "object", items |-> items] : items \in SeqsUpTo(RawItems, MaxPayloadItems)}

\* the calls of the batch runners: either function, any requested provider,
\* any batch of the topic list, anything the provider can do
BatchCalls ==
    UNION {{[op |-> op, stage |-> "call", llm_provider |-> p,
             card_topics_batch |-> BatchTopics(b), out |-> out] :
               op \in {"run_card_batch", "run_card_batch_streaming"},
               p \in {"openai", "anthropic", "claude"},
               out \in BatchOutcomes(BatchTopics(b))} : b \in 1..NumBatches}

NormalizerCalls ==
    {[op |-> "_cards_from_llm_json", stage |-> "call", data |-> d] : d \in Payloads}

InitFn ==
    /\ now = 0
    /\ sessions = <<>>
    /\ cfg \in {c \in Configs : ~c.supabase}
    /\ credits = 0
    /\ an = Idle /\ cc = Idle /\ ed = Idle
    /\ issued = {}
    /\ last = NoConfirm
    /\ fn \in NormalizerCalls \cup BatchCalls

CallCardsFromLlmJson ==
    /\ fn.op = "_cards_from_llm_json" /\ fn.stage = "call"
    /\ fn' = [op |-> fn.op, stage |-> "return", data |-> fn.data,
              result |-> CardsFromLlmJson(fn.data)]
    /\ UNCHANGED <<now, sessions, cfg, credits, an, cc, ed, issued, last>>

CallRunCardBatch ==
    /\ fn.op = "run_card_batch" /\ fn.stage = "call"
    /\ fn' = [op |-> fn.op, stage |-> "return", llm_provider |-> fn.llm_provider,
              card_topics_batch |-> fn.card_topics_batch, out |-> fn.out,
              result |-> RunCardBatch(cfg, fn.llm_provider, fn.card_topics_batch, fn.out)]
    /\ UNCHANGED <<now, sessions, cfg, credits, an, cc, ed, issued, last>>

CallRunCardBatchStreaming ==
    /\ fn.op = "run_card_batch_streaming" /\ fn.stage = "call"
    /\ fn' = [op |-> fn.op, stage |-> "return", llm_provider |-> fn.llm_provider,
              card_topics_batch |-> fn.card_topics_batch, out |-> fn.out,
              result |-> RunCardBatchStreaming(cfg, fn.llm_provider,
                                               fn.card_topics_batch, fn.out)]
    /\ UNCHANGED <<now, sessions, cfg, credits, an, cc, ed, issued, last>>

NextFn ==
    \/ CallCardsFromLlmJson
    \/ CallRunCardBatch
    \/ CallRunCardBatchStreaming

SpecFn == InitFn /\ [][NextFn]_vars

(***************************************************************************)
(* The session store on its own: put, get and patch of one session id and  *)
(* of an id never written, and the clock.  fn holds the last call and what *)
(* it returned; issued holds the ids written.                              *)
(***************************************************************************)
StoreIds == {"s1", "unknown"}

\* session dicts and partial dicts: any of two top-level keys, "cards" with
\* one of two values
StoreDicts ==
    UNION {[keys -> {"x", "y"}] : keys \in SUBSET {"cards", "llm_provider"}}

StorePut(sid, data) ==
    /\ sessions' = Put(sessions, sid, data, now)
    /\ issued' = issued \cup {sid}
    /\ fn' = [op |-> "put", sid |-> sid, data |-> data]
    /\ UNCHANGED <<now, cfg, credits, an, cc, ed, last>>

StoreGet(sid) ==
    /\ sessions' = GetTable(sessions, sid, now)
    /\ fn' = [op |-> "get", sid |-> sid, result |-> Get(sessions, sid, now)]
    /\ UNCHANGED <<now, cfg, credits, an, cc, ed, issued, last>>

StorePatch(sid, partial) ==
    /\ LET patched == Patch(sessions, sid, partial, now)
       IN  /\ sessions' = patched.table
           /\ fn' = [op |-> "patch", sid |-> sid, partial |-> partial,
                     result |-> [found |-> patched.found, data |-> patched.data]]
    /\ UNCHANGED <<now, cfg, credits, an, cc, ed, issued, last>>

InitStore ==
    /\ now = 0
    /\ sessions = <<>>
    /\ cfg \in {c \in Configs : ~c.openai_key /\ ~c.anthropic_enabled /\ ~c.supabase}
    /\ credits = 0
    /\ an = Idle /\ cc = Idle /\ ed = Idle
    /\ issued = {}
    /\ last = NoConfirm
    /\ fn = NoCall

NextStore ==
    \/ \E data \in StoreDicts : StorePut("s1", data)
    \/ \E sid \in StoreIds : StoreGet(sid)
    \/ \E sid \in StoreIds, partial \in StoreDicts : StorePatch(sid, partial)
    \/ Tick

SpecStore == InitStore /\ [][NextStore]_vars

(***************************************************************************)
(* The service with the chat route: every route of Next, and a chat that   *)
(* may name a provider                                                     *)
(***************************************************************************)
\* the provider of a chat request: none, one with white space around it, an
\* unknown one
ChatProviders == {JNull, JStr(<<" ", "anthropic">>), JStr(<<"Custom">>)}

\* the edit and confirm requests in which the card proposed, by the client
\* or by the provider, is B
SessionConfirmRequests ==
    {r \in ConfirmRequests : r \in BadRequests \/ r.card = PoolCard(<<"B">>)}

SessionEditRequests ==
    {r \in EditRequests : r \in BadRequests \/ r.res.raised \/ r.res.card = PoolCard(<<"B">>)}

SessionEditResults == {res \in EditResults : res.raised \/ res.card = PoolCard(<<"B">>)}

NextSession ==
    \/ \E sid \in SessionIds : AnalyzeStart(sid, "openai", JNull, DirectoryUp)
    \/ NoStream /\ \E sid \in RequestIds : StreamAnalysisStart(sid)
    \/ /\ an.pc = "batch"
       /\ \E out \in ServiceBatchOutcomes(Slice(CARD_TOPICS, an.batch_start,
                                                an.batch_start + BATCH_SIZE)) :
             StreamAnalysisBatch(out)
    \/ \E dout \in ServiceDashboardOutcomes : StreamAnalysisDashboard(dout)
    \/ StreamAnalysisDone
    \/ StreamAnalysisEnd
    \/ NoStream /\ \E r \in CreateStreamRequests : CreateCustomCardStream(r.sid, r.prompt, r.io)
    \/ StreamCustomCardStart
    \/ \E res \in CreateResults : StreamCustomCardFinish(res)
    \/ StreamCustomCardEnd
    \/ NoStream /\ \E r \in EditStreamRequests :
          EditCustomCardStream(r.sid, r.card_index, r.prompt, r.source)
    \/ StreamEditCardStart
    \/ \E res \in SessionEditResults : StreamEditCardFinish(res)
    \/ StreamEditCardEnd
    \/ \E r \in SessionConfirmRequests :
          ConfirmCardEdit(r.sid, r.card_index, r.source, r.card, r.io)
    \/ \E r \in SessionEditRequests :
          EditCustomCard(r.sid, r.card_index, r.prompt, r.source, r.res)
    \/ \E r \in CreateRequests : CreateCustomCard(r.sid, r.prompt, r.res)
    \/ \E sid \in RequestIds, message \in {<<"p">>, <<" ">>}, p \in ChatProviders :
          AnalyzeChat(sid, message, p)
    \/ Tick

SpecSession == Init /\ [][NextSession]_vars

(***************************************************************************)
(* The credit-gated routes: session start (2 credits), custom-card stream  *)
(* and confirm (1 credit each), for a store that is empty or holds one     *)
(* session, every balance and everything the user directory can do         *)
(***************************************************************************)
InitCredits ==
    /\ now = 0
    /\ \/ sessions = <<>> /\ issued = {}
       \/ /\ \E data \in ConfirmSessions : sessions = Put(<<>>, "s1", data, 0)
          /\ issued = {"s1"}
    /\ cfg \in {c \in Configs : c.openai_key /\ c.anthropic_enabled}
    /\ credits \in 0..MaxCredits
    /\ an = Idle /\ cc = Idle /\ ed = Idle
    /\ last = NoConfirm
    /\ fn = NoCall

\* the confirm requests of one proposed card, with everything the user
\* directory can do
CreditConfirmRequests ==
    {Request(sid, i, <<"p">>, source, PoolCard(<<"B">>), AnyResult, io) :
        sid \in RequestIds, i \in CardIndexes, source \in Sources, io \in CreditOutcomes}

NextCredits ==
    \/ \E sid \in SessionIds, u \in Usernames, io \in DirectoryOutcomes :
          AnalyzeStart(sid, "openai", u, io)
    \/ \E sid \in RequestIds, prompt \in {<<"p">>, <<" ">>}, io \in CreditOutcomes :
          CreateCustomCardStream(sid, prompt, io)
    \/ StreamCustomCardStart
    \/ \E res \in CreateResults : StreamCustomCardFinish(res)
    \/ StreamCustomCardEnd
    \/ \E r \in CreditConfirmRequests :
          ConfirmCardEdit(r.sid, r.card_index, r.source, r.card, r.io)
    \/ Tick

SpecCredits == InitCredits /\ [][NextCredits]_vars

(***************************************************************************)
(* POST /login (routes.login) and supabase_access.is_user_allowed          *)
(***************************************************************************)
\* what the GET of the user's row does: "found" a row, "absent" an empty
\* list, "status" a response that is not 200, "unreachable" a URLError,
\* "garbled" a body that is not JSON
Directories == {"found", "absent", "status", "unreachable", "garbled"}

\* is_user_allowed(username): [raised, allowed]; raised is
\* SupabaseNotConfiguredError
IsUserAllowed(username, directory) ==
    IF ~cfg.supabase THEN [raised |-> TRUE, allowed |-> FALSE]
    ELSE IF Strip(username) = <<>> THEN [raised |-> FALSE, allowed |-> FALSE]
    ELSE [raised |-> FALSE, allowed |-> directory = "found"]

\* login(body): the status of the response
Login(username, password, directory) ==
    IF Strip(username) = <<>> \/ Strip(password) = <<>> THEN 400
    ELSE LET got == IsUserAllowed(Strip(username), directory)
         IN  IF got.raised THEN 503
             ELSE IF ~got.allowed THEN 403
             ELSE 200

(***************************************************************************)
(* Source links and percentages of the cards of one answer                 *)
(* (research_agent._cards_from_llm_json, schemas/insight_card.py)          *)
(***************************************************************************)

\* None as a source_url: a missing key, null and "" all become it (`or None`)
NoUrl == "none"

\* the set of a list's elements
Range(s) == {s[i] : i \in DOMAIN s}

\* the while loop of _assign_url: walk allowed_list from allowed_index, take
\* the first URL no card has used, None when the list runs out
RECURSIVE NextAllowedUrl(_, _, _)
NextAllowedUrl(allowed_list, used_urls, allowed_index) ==
    IF allowed_index >= Len(allowed_list)
    THEN [url |-> NoUrl, used_urls |-> used_urls, allowed_index |-> allowed_index]
    ELSE LET u == allowed_list[allowed_index + 1]
         IN  IF u \notin used_urls
             THEN [url |-> u, used_urls |-> used_urls \cup {u},
                   allowed_index |-> allowed_index + 1]
             ELSE NextAllowedUrl(allowed_list, used_urls, allowed_index + 1)

\* _assign_url hands a used raw URL on
AssignUrlKeepsUsed(url, allowed_list, used_urls, allowed_index) ==
    IF url = NoUrl /\ allowed_list # <<>>
    THEN NextAllowedUrl(allowed_list, used_urls, allowed_index)
    ELSE IF url = NoUrl
    THEN [url |-> NoUrl, used_urls |-> used_urls, allowed_index |-> allowed_index]
    ELSE IF allowed_list # <<>> /\ url \notin Range(allowed_list)
    THEN [url |-> NoUrl, used_urls |-> used_urls, allowed_index |-> allowed_index]
    ELSE [url |-> url, used_urls |-> used_urls \cup {url}, allowed_index |-> allowed_index]

\* _assign_url(url) with the closure's used_urls and allowed_index, which it
\* returns updated; allowed_urls is the set allowed_list was made of
AssignUrl(url, allowed_list, used_urls, allowed_index) ==
    IF url = NoUrl /\ allowed_list # <<>>
    THEN NextAllowedUrl(allowed_list, used_urls, allowed_index)
    ELSE IF url = NoUrl
    THEN [url |-> NoUrl, used_urls |-> used_urls, allowed_index |-> allowed_index]
    ELSE IF url \in used_urls /\ allowed_list # <<>>
    THEN NextAllowedUrl(allowed_list, used_urls, allowed_index)
    ELSE IF allowed_list # <<>> /\ url \notin Range(allowed_list)
    THEN [url |-> NoUrl, used_urls |-> used_urls, allowed_index |-> allowed_index]
    ELSE [url |-> url, used_urls |-> used_urls \cup {url}, allowed_index |-> allowed_index]

\* the source_url of one item before _assign_url: cleared when a permitted
\* set is given and the URL is not in it
PermittedUrl(url, allowed_list) ==
    IF allowed_list # <<>> /\ url # NoUrl /\ url \notin Range(allowed_list) THEN NoUrl ELSE url

\* Field(ge=0, le=100) of baseline_pct and current_trend_pct, after
\* `int(b) if b is not None else None`: None passes, an int passes from 0 to
\* 100, a value int() raises on does not
PctValid(pct) == pct.k = "missing" \/ (pct.k = "int" /\ pct.n >= 0 /\ pct.n <= 100)

\* the cards of the items from position i on: an item is the source_url and
\* baseline_pct of a raw card and whether its other fields pass InsightCard.
\* The try branch calls _assign_url and then builds the InsightCard; when that
\* raises, the except branch calls _assign_url again and keeps the raw
\* baseline_pct
RECURSIVE LinksFrom(_, _, _, _, _)
LinksFrom(raw_cards, i, allowed_list, used_urls, allowed_index) ==
    IF i >= Len(raw_cards) THEN <<>>
    ELSE LET c == raw_cards[i + 1]
             raw_url == PermittedUrl(c.source_url, allowed_list)
             first == AssignUrl(raw_url, allowed_list, used_urls, allowed_index)
             accepted == c.valid /\ PctValid(c.baseline_pct)
             again == AssignUrl(raw_url, allowed_list, first.used_urls, first.allowed_index)
             assigned == IF accepted THEN first ELSE again
         IN  <<[source_url |-> assigned.url, baseline_pct |-> c.baseline_pct]>>
             \o LinksFrom(raw_cards, i + 1, allowed_list, assigned.used_urls,
                          assigned.allowed_index)

\* _cards_from_llm_json(data, allowed_urls=...), its source_url and
\* baseline_pct fields: allowed_list = list(allowed_urls), nothing used yet
CardLinks(raw_cards, allowed_list) == LinksFrom(raw_cards, 0, allowed_list, {}, 0)

(***************************************************************************)
(* The search tool-use loop (research_agent._openai_card_batch_with_tools) *)
(*                                                                         *)
(* What the provider answers in a round is [tool_calls, content]: the tool *)
(* calls of the message, each [name, urls] with the URLs of the results    *)
(* Tavily has for its query ("" for a result without one), and the text.   *)
(* answers is the list of the provider's answers round by round; past its  *)
(* end the provider answers with the text and no tool call.  tavily is     *)
(* whether search_tavily has a client: without one every search returns [].*)
(***************************************************************************)
\* the answer that ends the loop: the cards as text, no tool call
FinalAnswer == [tool_calls |-> <<>>, content |-> "cards"]

\* the answer of round r (1-based)
AnswerAt(answers, r) == IF r <= Len(answers) THEN answers[r] ELSE FinalAnswer

\* (msg.content or "").strip() or "{}"
ContentOf(answer) == IF answer.content = "" THEN "{}" ELSE answer.content

\* lines 365-383: the URLs the web_search calls of one message add
UrlsOfRound(answer, tavily) ==
    IF ~tavily THEN {}
    ELSE UNION {Range(answer.tool_calls[i].urls) \ {""} :
                   i \in {j \in DOMAIN answer.tool_calls :
                             answer.tool_calls[j].name = "web_search"}}

\* the for loop of lines 346-384 from round r (0-based) on, content being
\* "{}" or the text of the last message: [content, all_urls, calls], calls
\* the number of client.chat.completions.create calls
RECURSIVE ToolRounds(_, _, _, _)
ToolRounds(answers, tavily, r, all_urls) ==
    LET msg == AnswerAt(answers, r + 1)
    IN  IF msg.tool_calls = <<>>
        THEN [content |-> ContentOf(msg), all_urls |-> all_urls, calls |-> r + 1]
        ELSE IF r + 1 >= max_tool_rounds
        THEN [content |-> ContentOf(msg),
              all_urls |-> all_urls \cup UrlsOfRound(msg, tavily), calls |-> r + 1]
        ELSE ToolRounds(answers, tavily, r + 1, all_urls \cup UrlsOfRound(msg, tavily))

\* _openai_card_batch_with_tools(...): all_urls = set(), rounds from 0
OpenaiCardBatchWithTools(answers, tavily) == ToolRounds(answers, tavily, 0, {})

(***************************************************************************)
(* Functions and routes that write nothing, called on their own: the call  *)
(* is drawn with its arguments, then run                                   *)
(***************************************************************************)
LoginCalls ==
    {[op |-> "login", stage |-> "call", username |-> u, password |-> <<"pw">>,
      directory |-> d] : u \in {<<"u">>, <<" ">>}, d \in Directories}

\* the calls of get_dashboard_summary: either provider requested, a rent
\* that parses (to 50, to 1000, to 0, to -50) or does not, no card or the cards of a
\* batch, and every answer of the provider with a fair rent below, at and
\* above 50 and a vs_current_pct of its own (12.34, in hundredths)
DashboardCalls ==
    {[op |-> "get_dashboard_summary", stage |-> "call", llm_provider |-> p,
      current_base_rent |-> rent, cards |-> cards, dout |-> dout] :
        p \in {"openai", "anthropic"}, rent \in {"50", "1,000", "0", "-50", "abc"},
        cards \in {<<>>, PlaceholderCards(BatchTopics(NumBatches))},
        dout \in [attempts : [1..2 -> {"ok", "error", "invalid", "illtyped"}],
                  fair : {40, 50, 60}, confidence : {70}, ideal_term : {<<"5 Years">>},
                  vs_current_pct : {1234}]}

\* the orders list(allowed_urls) can have: allowed_urls is a set, whose
\* iteration order is any order of its elements
OrdersOf(surfaced) ==
    {l \in [1..Len(surfaced) -> Range(surfaced)] : Range(l) = Range(surfaced)}

\* the raw source_url values: none, the two URLs a search can surface, and one
\* no search surfaced
RawUrls == {NoUrl, "a", "b", "x"}

\* the raw baseline_pct values: no key, 0, a percentage, a number above 100
\* and a value int() raises on
RawPcts == {JNoInt, JInt(0), JInt(50), JInt(150), JBadInt}

\* the calls of _cards_from_llm_json: the URLs searches surfaced, in that
\* order (none, one, two), list(allowed_urls) in any order of the set, and
\* up to MaxLinkItems raw cards whose URL is missing, permitted or made up
\* and which pass or fail InsightCard; or one raw card with a baseline_pct
CardLinkCalls ==
    UNION {{[op |-> "_cards_from_llm_json", stage |-> "call", surfaced |-> sf,
             allowed_list |-> l, raw_cards |-> rc] :
               l \in OrdersOf(sf),
               rc \in SeqsUpTo([source_url : RawUrls, baseline_pct : {JNoInt},
                                valid : BOOLEAN], MaxLinkItems)
                      \cup [1..1 -> [source_url : {NoUrl}, baseline_pct : RawPcts,
                                     valid : BOOLEAN]]} :
           sf \in {<<>>, <<"a">>, <<"a", "b">>}}

\* what the provider can answer in a round: the text; a web_search call
\* whose search finds a, finds b and a result without URL, or finds nothing;
\* a call of a tool the request did not offer
RoundAnswers ==
    {FinalAnswer}
    \cup {[tool_calls |-> <<[name |-> "web_search", urls |-> u]>>, content |-> ""] :
             u \in {<<"a">>, <<"b", "">>, <<>>}}
    \cup {[tool_calls |-> <<[name |-> "lookup", urls |-> <<>>]>>, content |-> ""]}

\* the calls of _openai_card_batch_with_tools: every list of up to three
\* answers, and a provider that asks for a search in each of its first n
\* rounds, n up to MaxToolAnswers, with and without a Tavily client
ToolCalls ==
    {[op |-> "_openai_card_batch_with_tools", stage |-> "call", answers |-> a,
      tavily |-> t] :
        a \in SeqsUpTo(RoundAnswers, 3)
              \cup {[i \in 1..n |-> [tool_calls |-> <<[name |-> "web_search",
                                                       urls |-> <<"a">>]>>,
                                      content |-> ""]] : n \in 4..MaxToolAnswers},
        t \in BOOLEAN}

Calls == LoginCalls \cup DashboardCalls \cup CardLinkCalls \cup ToolCalls

InitCalls ==
    /\ now = 0
    /\ sessions = <<>>
    /\ cfg \in Configs
    /\ credits = 0
    /\ an = Idle /\ cc = Idle /\ ed = Idle
    /\ issued = {}
    /\ last = NoConfirm
    /\ fn \in Calls

CallLogin ==
    /\ fn.op = "login" /\ fn.stage = "call"
    /\ fn' = [fn EXCEPT !.stage = "return"] @@
             [status |-> Login(fn.username, fn.password, fn.directory)]
    /\ UNCHANGED <<now, sessions, cfg, credits, an, cc, ed, issued, last>>

CallGetDashboardSummary ==
    /\ fn.op = "get_dashboard_summary" /\ fn.stage = "call"
    /\ fn' = [fn EXCEPT !.stage = "return"] @@
             [result |-> GetDashboardSummary(cfg, fn.llm_provider, fn.current_base_rent,
                                             fn.cards, fn.dout)]
    /\ UNCHANGED <<now, sessions, cfg, credits, an, cc, ed, issued, last>>

CallCardLinks ==
    /\ fn.op = "_cards_from_llm_json" /\ fn.stage = "call"
    /\ fn' = [fn EXCEPT !.stage = "return"] @@
             [result |-> CardLinks(fn.raw_cards, fn.allowed_list)]
    /\ UNCHANGED <<now, sessions, cfg, credits, an, cc, ed, issued, last>>

CallOpenaiCardBatchWithTools ==
    /\ fn.op = "_openai_card_batch_with_tools" /\ fn.stage = "call"
    /\ fn' = [fn EXCEPT !.stage = "return"] @@
             [result |-> OpenaiCardBatchWithTools(fn.answers, fn.tavily)]
    /\ UNCHANGED <<now, sessions, cfg, credits, an, cc, ed, issued, last>>

NextCalls ==
    \/ CallLogin
    \/ CallGetDashboardSummary
    \/ CallCardLinks
    \/ CallOpenaiCardBatchWithTools

SpecCalls == InitCalls /\ [][NextCalls]_vars

(***************************************************************************)
(* A client that disconnects from a stream                                 *)
(* (routes._stream_custom_card, routes._stream_analysis)                   *)
(*                                                                         *)
(* The generators are run by the StreamingResponse.  When the client goes  *)
(* away the response either cancels the generator where it waits           *)
(* (cancelled: CancelledError is not an Exception, no except clause of the *)
(* generators takes it) or closes it at the next line it yields.  The      *)
(* thread started by asyncio.to_thread runs on either way; pc "closed" is  *)
(* a generator that was cancelled or closed, task the result of the thread.*)
(***************************************************************************)
\* lines 502-530 after the client has gone: the generator reaches the patch
\* of line 527 only if it is not cancelled and the task ends, with a card,
\* before the next progress line is due
StreamCustomCardDisconnect(cancelled, in_time, res) ==
    /\ cc.pc = "waiting"
    /\ LET made == CreateCustomCardFromTopic(cc.prompt, res)
           existing == Append(CardsList(cc.session, "custom_cards"), made.card)
           patched == Patch(sessions, cc.sid, [custom_cards |-> existing], now)
           closed == [cc EXCEPT !.pc = "closed"] @@ [task |-> made]
       IN  IF cancelled \/ ~in_time \/ made.raised
           THEN /\ cc' = closed
                /\ UNCHANGED <<sessions, last>>
           ELSE /\ sessions' = patched.table
                /\ last' = IF patched.found THEN NoConfirm ELSE last
                /\ cc' = [closed EXCEPT !.wrote = patched.found]
    /\ UNCHANGED <<now, cfg, credits, an, ed, issued, fn>>

\* lines 222-278 after the client has gone: a generator waiting for a batch
\* is cancelled there or closed at the progress lines of the batch; one
\* waiting for the summary reaches the patch of line 267 if not cancelled
StreamAnalysisDisconnect(cancelled, dout) ==
    /\ an.pc \in {"batch", "dashboard"}
    /\ LET got == GetDashboardSummary(cfg, DictGet(an.ctx, "llm_provider", "openai"),
                                      an.ctx.current_base_rent, an.all_cards, dout)
           patched == Patch(sessions, an.sid,
                            [dashboard_summary |-> got.data, cards |-> an.all_cards], now)
       IN  IF an.pc = "batch" \/ cancelled \/ got.raised
           THEN /\ an' = [an EXCEPT !.pc = "closed"]
                /\ UNCHANGED <<sessions, last>>
           ELSE /\ sessions' = patched.table
                /\ last' = IF patched.found THEN NoConfirm ELSE last
                /\ an' = [an EXCEPT !.pc = "closed", !.wrote = patched.found]
    /\ UNCHANGED <<now, cfg, credits, cc, ed, issued, fn>>

\* one live session, a stream at a time, a provider whose answer to a batch
\* may not be JSON, a client that may go away
NextDisconnect ==
    \/ NoStream /\ \E sid \in SessionIds : StreamAnalysisStart(sid)
    \/ /\ an.pc = "batch"
       /\ \E out \in ServiceBatchOutcomes(Slice(CARD_TOPICS, an.batch_start,
                                                an.batch_start + BATCH_SIZE))
                       \cup {Outcome("ok", "invalid", <<>>, FALSE, 0)} :
             StreamAnalysisBatch(out)
    \/ \E dout \in ServiceDashboardOutcomes : StreamAnalysisDashboard(dout)
    \/ StreamAnalysisDone
    \/ StreamAnalysisEnd
    \/ \E cancelled \in BOOLEAN, dout \in ServiceDashboardOutcomes :
          StreamAnalysisDisconnect(cancelled, dout)
    \/ NoStream /\ \E r \in CreateStreamRequests : CreateCustomCardStream(r.sid, r.prompt, r.io)
    \/ StreamCustomCardStart
    \/ StreamCustomCardTimeout
    \/ \E res \in CreateResults : StreamCustomCardFinish(res)
    \/ StreamCustomCardEnd
    \/ \E cancelled \in BOOLEAN, in_time \in BOOLEAN, res \in CreateResults :
          StreamCustomCardDisconnect(cancelled, in_time, res)

SpecDisconnect == InitConfirm /\ [][NextDisconnect]_vars

(***************************************************************************)
(* The wait loop of the custom-card and edit generators, with the task of  *)
(* asyncio.create_task(asyncio.to_thread(...)) as a process of its own     *)
(* (routes._stream_custom_card 483-521, routes._stream_edit_card 627-661)  *)
(*                                                                         *)
(* fn = [op, custom, edit]: the task of each generator, [stage |-> "call"] *)
(* while the function runs in its thread and                               *)
(* [stage |-> "return", result |-> res] once llm_task.done() is true.      *)
(***************************************************************************)
Running == [stage |-> "call"]

\* the function given to asyncio.to_thread returns or raises: the task of
\* the generator that waits (key "custom" or "edit") is done
ToThreadReturns(key, res) ==
    /\ (IF key = "custom" THEN cc.pc ELSE ed.pc) = "waiting"
    /\ fn[key] = Running
    /\ fn' = [fn EXCEPT ![key] = [stage |-> "return", result |-> res]]
    /\ UNCHANGED <<now, sessions, cfg, credits, an, cc, ed, issued, last>>

\* a wait loop that sends its next line without looking at the task
StreamCustomCardTickIgnoresTask ==
    /\ cc.pc = "waiting"
    /\ cc.step_index < MaxThinkingTicks
    /\ cc' = [cc EXCEPT !.events = Append(@, ThinkingEvent(CustomThinkingSteps, cc.step_index)),
                        !.step_index = @ + 1]
    /\ UNCHANGED <<now, sessions, cfg, credits, an, ed, issued, last, fn>>

\* lines 501-511: wait_for has timed out, `while not llm_task.done()` finds
\* the task running, the next line is sent
StreamCustomCardTick ==
    /\ cc.pc = "waiting"
    /\ fn.custom = Running
    /\ cc.step_index < MaxThinkingTicks
    /\ cc' = [cc EXCEPT !.events = Append(@, ThinkingEvent(CustomThinkingSteps, cc.step_index)),
                        !.step_index = @ + 1]
    /\ UNCHANGED <<now, sessions, cfg, credits, an, ed, issued, last, fn>>

\* lines 644-654, the same loop of the edit generator
StreamEditCardTick ==
    /\ ed.pc = "waiting"
    /\ fn.edit = Running
    /\ ed.step_index < MaxThinkingTicks
    /\ ed' = [ed EXCEPT !.events = Append(@, ThinkingEvent(EditThinkingSteps, ed.step_index)),
                        !.step_index = @ + 1]
    /\ UNCHANGED <<now, sessions, cfg, credits, an, cc, issued, last, fn>>

\* one session with the cards of an analysis and one custom card; both tasks
\* still to run
InitTicks ==
    /\ now = 0
    /\ sessions = Put(<<>>, "s1",
                      DictUpdate(SessionData("openai", JNull),
                                 [cards |-> PlaceholderCards(CARD_TOPICS),
                                  custom_cards |-> <<PoolCard(<<"A">>)>>]), 0)
    /\ cfg \in {c \in Configs : c.openai_key /\ c.anthropic_enabled /\ ~c.supabase}
    /\ credits = 0
    /\ an = Idle /\ cc = Idle /\ ed = Idle
    /\ issued = {"s1"}
    /\ last = NoConfirm
    /\ fn = [op |-> "to_thread", custom |-> Running, edit |-> Running]

\* one custom-card stream and one edit stream, side by side; each generator
\* collects the result (lines 514-530, 656-670) once its task is done
NextTicks ==
    \/ /\ fn.custom = Running
       /\ \E r \in CreateStreamRequests : CreateCustomCardStream(r.sid, r.prompt, r.io)
    \/ StreamCustomCardStart
    \/ \E res \in CreateResults : ToThreadReturns("custom", res)
    \/ StreamCustomCardTick
    \/ fn.custom # Running /\ StreamCustomCardFinish(fn.custom.result)
    \/ StreamCustomCardEnd
    \/ /\ fn.edit = Running
       /\ \E r \in EditStreamRequests :
             EditCustomCardStream(r.sid, r.card_index, r.prompt, r.source)
    \/ StreamEditCardStart
    \/ \E res \in EditResults : ToThreadReturns("edit", res)
    \/ StreamEditCardTick
    \/ fn.edit # Running /\ StreamEditCardFinish(fn.edit.result)
    \/ StreamEditCardEnd

SpecTicks == InitTicks /\ [][NextTicks]_vars

(***************************************************************************)
(* Two custom-card generators on one session                               *)
(* (routes._stream_custom_card, one event loop)                            *)
(*                                                                         *)
(* cc is the generator the event loop is running, fn the other one, parked *)
(* at its await or not yet started; each has read the session for itself   *)
(* at line 477 and keeps its own lines.                                    *)
(***************************************************************************)
\* the running generator awaits (line 507) or has ended, and the event loop
\* runs the other one
SwitchGenerator ==
    /\ cc' = fn
    /\ fn' = cc
    /\ cc # fn
    /\ UNCHANGED <<now, sessions, cfg, credits, an, ed, issued, last>>

\* one session, with no custom card or one; no generator started
InitRace ==
    /\ now = 0
    /\ \E custom \in {<<>>, <<PoolCard(<<"C">>)>>} :
          sessions = Put(<<>>, "s1",
                         DictUpdate(SessionData("openai", JNull),
                                    [custom_cards |-> custom]), 0)
    /\ cfg \in {c \in Configs : c.openai_key /\ ~c.supabase}
    /\ credits = 0
    /\ an = Idle /\ cc = Idle /\ ed = Idle
    /\ issued = {"s1"}
    /\ last = NoConfirm
    /\ fn = Idle

\* two clients ask for a custom card; the provider returns card A or card B
\* or fails
NextRace ==
    \/ \E r \in CreateStreamRequests : CreateCustomCardStream(r.sid, r.prompt, r.io)
    \/ StreamCustomCardStart
    \/ StreamCustomCardTimeout
    \/ \E res \in EditResults : StreamCustomCardFinish(res)
    \/ SwitchGenerator

SpecRace == InitRace /\ [][NextRace]_vars

(***************************************************************************)
(* Event order of the analysis stream                                      *)
(***************************************************************************)
\* the lines of the stream that follow the batches: dashboard, done
TailLen == IF an.pc = "done" THEN 2 ELSE IF an.pc = "emit_done" THEN 1 ELSE 0

\* where the lines of batch b start: at the progress line of its first topic
SegStart(b) ==
    LET at == {i \in 1..Len(an.events) :
                  /\ an.events[i].type = "progress"
                  /\ an.events[i].topic = BatchTopics(b)[1]}
    IN  IF at = {} THEN 0 ELSE CHOOSE i \in at : \A j \in at : i <= j

\* where the lines of batch b end
SegEnd(b) == IF b < Len(an.log) THEN SegStart(b + 1) - 1 ELSE Len(an.events) - TailLen

\* the lines lo..hi are those of batch b: one progress line per topic in topic
\* order, then progress lines without a topic, then a cards line exactly when
\* the batch added a new unique card, carrying those cards and the batch index
BatchSegment(b, lo, hi) ==
    LET topics == BatchTopics(b)
        has_cards == an.log[b].unique > 0
        last_progress == IF has_cards THEN hi - 1 ELSE hi
    IN  /\ lo >= 1
        /\ an.log[b].batch_index = b
        /\ lo + Len(topics) - 1 <= last_progress
        /\ \A i \in lo..last_progress :
              /\ an.events[i].type = "progress"
              /\ an.events[i].topic = (IF i < lo + Len(topics) THEN topics[i - lo + 1]
                                       ELSE <<>>)
        /\ has_cards =>
              /\ an.events[hi].type = "cards"
              /\ an.events[hi].batch_index = b
              /\ an.events[hi].cards # <<>>
              /\ Len(an.events[hi].cards) = an.log[b].unique

\* C1: in an analysis stream of an existing session in which no awaited
\* provider call has raised, the lines sent are, for batches 1..4 in topic
\* order, the batch's progress lines followed by at most one cards line with
\* that batch_index (present exactly when the batch added a new unique card,
\* never empty), then exactly one dashboard line, then exactly one done line,
\* which is the last
C1_EventOrder ==
    an.pc \in {"batch", "dashboard", "emit_done", "done"} =>
        /\ Len(an.log) <= NumBatches
        /\ an.pc # "batch" => Len(an.log) = NumBatches
        /\ Len(an.log) > 0 => SegStart(1) = 1
        /\ Len(an.log) = 0 => an.events = <<>>
        /\ \A b \in 1..Len(an.log) : BatchSegment(b, SegStart(b), SegEnd(b))
        /\ an.pc \in {"emit_done", "done"} =>
              an.events[Len(an.events) - TailLen + 1].type = "dashboard"
        /\ an.pc = "done" => an.events[Len(an.events)].type = "done"

\* a stream that has ended with done after a batch with a cards line and a
\* batch without one
C1_Witness ==
    /\ an.pc = "done"
    /\ \E b \in 1..Len(an.log) : an.log[b].unique > 0
    /\ \E b \in 1..Len(an.log) : an.log[b].unique = 0

(***************************************************************************)
(* Deduplication across batches                                            *)
(***************************************************************************)
\* the cards of a list that are the first of the list with their normalized
\* title, those with an empty normalized title left out, in list order
RECURSIVE FirstOccurrences(_, _)
FirstOccurrences(cards, i) ==
    IF i > Len(cards) THEN <<>>
    ELSE (IF /\ TitleKey(cards[i]) # <<>>
             /\ \A j \in 1..(i - 1) : TitleKey(cards[j]) # TitleKey(cards[i])
          THEN <<cards[i]>> ELSE <<>>)
         \o FirstOccurrences(cards, i + 1)

\* one step of the stream keeps the first card of every normalized title
FirstOccurrenceWins ==
    /\ (an.pc = "batch" /\ an'.pc \in {"batch", "dashboard"}) =>
          \A out \in BatchOutcomes(BatchTopics(Len(an.log) + 1)) :
              StreamAnalysisBatch(out) =>
                  LET returned == RunCardBatchStreaming(
                                      cfg, DictGet(an.ctx, "llm_provider", "openai"),
                                      BatchTopics(Len(an.log) + 1), out).cards
                  IN  /\ an'.all_cards = FirstOccurrences(an.all_cards \o returned, 1)
                      /\ \A i, j \in 1..Len(an'.all_cards) :
                            /\ TitleKey(an'.all_cards[i]) # <<>>
                            /\ i # j => TitleKey(an'.all_cards[i]) # TitleKey(an'.all_cards[j])
    /\ (an.pc = "dashboard" /\ an'.pc = "emit_done" /\ an'.wrote) =>
          sessions'[an.sid].data.cards = an.all_cards

C7_NormalizerTitlesDistinct ==
    (fn.op = "_cards_from_llm_json" /\ fn.stage = "return" /\ ~fn.result.raised) =>
        \A i, j \in 1..Len(fn.result.cards) :
            i # j => TitleKey(fn.result.cards[i]) # TitleKey(fn.result.cards[j])

(***************************************************************************)
(* Placeholders when no provider is configured                             *)
(***************************************************************************)
\* C10: with neither an OpenAI key nor a usable Anthropic SDK, run_card_batch
\* and run_card_batch_streaming, for either requested provider, return
\* without raising one placeholder card per topic of the batch in topic
\* order (the topic as title, confidence_score 0, source "Not available")
\* and call no provider and no search service
C10_PlaceholdersWhenUnconfigured ==
    (/\ fn.op \in {"run_card_batch", "run_card_batch_streaming"}
     /\ fn.stage = "return"
     /\ ~cfg.openai_key /\ ~cfg.anthropic_enabled) =>
        /\ ~fn.result.raised
        /\ fn.result.calls = {}
        /\ Len(fn.result.cards) = Len(fn.card_topics_batch)
        /\ \A i \in 1..Len(fn.card_topics_batch) :
              /\ fn.result.cards[i].title = JStr(fn.card_topics_batch[i])
              /\ fn.result.cards[i].confidence_score = 0
              /\ fn.result.cards[i].source = <<"Not", "available">>

\* the streaming runner has returned for a full batch requested from
\* Anthropic with no provider configured, while the provider would have failed
C10_Witness ==
    /\ fn.op = "run_card_batch_streaming" /\ fn.stage = "return"
    /\ ~cfg.openai_key /\ ~cfg.anthropic_enabled
    /\ fn.llm_provider = "anthropic"
    /\ fn.out.call = "error"
    /\ Len(fn.card_topics_batch) = BATCH_SIZE
    /\ Len(fn.result.cards) = BATCH_SIZE

(***************************************************************************)
(* Confirm twice                                                           *)
(***************************************************************************)
\* a step in which a confirm answers 200: the same confirm (same session,
\* index, source and card) run next leaves the session's data as this one
\* did, whatever the user directory does then; and when this confirm repeats
\* the last one the store took, with the session still live, it has left the
\* session's data as it was
SecondConfirmKeepsData ==
    last'.times > 0 =>
        LET q == last'.request
        IN  \A io1 \in CreditOutcomes :
              LET first == ConfirmCardEditResult(sessions, credits, q.sid, q.card_index,
                                                 q.source, q.updated_card, io1, now)
              IN  (/\ first.status = 200
                   /\ sessions' = first.table /\ credits' = first.credits /\ now' = now) =>
                      /\ \A io \in CreditOutcomes :
                            LET second == ConfirmCardEditResult(
                                              sessions', credits', q.sid, q.card_index,
                                              q.source, q.updated_card, io, now)
                            IN  /\ q.sid \in DOMAIN second.table
                                /\ second.table[q.sid].data = sessions'[q.sid].data
                      /\ (last.times > 0 /\ last.request = q) =>
                            sessions'[q.sid].data = sessions[q.sid].data

\* C5: for a live session and a valid index and source, a second confirm
\* with the same index, source and updated_card leaves the session's data
\* (every card collection and every other field) as the first confirm left it
C5_ConfirmIdempotent == [][SecondConfirmKeepsData]_vars

\* the same confirm has been answered 200 twice in a row for the second
\* custom card of a user's session, and the card stored there is the body
C5_Witness ==
    /\ last.times = 2
    /\ last.request.source = <<"custom">>
    /\ Truthy(sessions[last.request.sid].data.username)
    /\ sessions[last.request.sid].data.custom_cards[last.request.card_index + 1]
           = last.request.updated_card

(***************************************************************************)
(* A stream started for a session that is not there                        *)
(***************************************************************************)
\* the store has no row for sid, or the row has expired
SessionMissing(sid) == sid \notin DOMAIN sessions \/ sessions[sid].expires_at <= now

\* the step wrote no session row: every row is as it was, none was added
\* (the store drops expired rows when it is read)
NoSessionWrite ==
    \A sid \in DOMAIN sessions' : sid \in DOMAIN sessions /\ sessions'[sid] = sessions[sid]

\* a stream that has sent one error line for a missing session and nothing
\* else, has called nothing and has written nothing
OnlySessionNotFound(flow) ==
    /\ flow.pc = "error"
    /\ flow.events = << [type |-> "error", message |-> "Session not found"] >>
    /\ flow.called = {}
    /\ ~flow.wrote

\* a generator that starts without its session ends at once with the error
\* line, and a stream that has sent an error line sends nothing more
StartWithoutSession ==
    /\ (an.pc = "idle" /\ an'.pc # "idle" /\ SessionMissing(an'.sid)) =>
          OnlySessionNotFound(an') /\ NoSessionWrite
    /\ (cc.pc = "accepted" /\ cc' # cc /\ SessionMissing(cc.sid)) =>
          OnlySessionNotFound(cc') /\ NoSessionWrite
    /\ (ed.pc = "accepted" /\ ed' # ed /\ SessionMissing(ed.sid)) =>
          OnlySessionNotFound(ed') /\ NoSessionWrite
    /\ (an.pc = "error" /\ an' # an) => an' = Idle /\ NoSessionWrite
    /\ (cc.pc = "error" /\ cc' # cc) => cc' = Idle /\ NoSessionWrite
    /\ (ed.pc = "error" /\ ed' # ed) => ed' = Idle /\ NoSessionWrite

\* C2: when the session is absent or expired as the generator of a stream
\* (full analysis, custom-card creation, card edit) starts, the stream is
\* exactly one error line: no progress line, no provider call, no write to
\* the session store
C2_OnlyErrorWithoutSession == [][StartWithoutSession]_vars

\* a custom-card stream whose session expired between the route's answer and
\* the generator's start has ended with its one error line
C2_Witness ==
    /\ cc.pc = "error"
    /\ cc.events = <<ErrorEvent("Session not found")>>
    /\ cc.sid \in issued
    /\ cc.sid \notin DOMAIN sessions

(***************************************************************************)
(* Edit proposes, confirm stores                                           *)
(***************************************************************************)
\* the step is one of the edit stream's: only they change ed
EditStreamStep == ed' # ed

\* the collection of a live session the request is about
StoredList(table, sid, source) == CardsList(table[sid].data, CardsKey(source))

\* an edit-stream step leaves every session row as it was; a step in which a
\* confirm is answered 200 (the only step that records a request in last)
\* leaves the collection with the body at the index, every other index as it
\* was, and every other entry of the session dict as it was
EditThenConfirm ==
    /\ EditStreamStep => NoSessionWrite
    /\ (last' # last /\ last'.times > 0) =>
          LET q == last'.request
              before == StoredList(sessions, q.sid, q.source)
              after == StoredList(sessions', q.sid, q.source)
          IN  /\ Len(after) = Len(before)
              /\ after[q.card_index + 1] = q.updated_card
              /\ \A i \in 1..Len(before) : i # q.card_index + 1 => after[i] = before[i]
              /\ DOMAIN sessions'[q.sid].data = DOMAIN sessions[q.sid].data
              /\ \A key \in DOMAIN sessions[q.sid].data \ {CardsKey(q.source)} :
                    sessions'[q.sid].data[key] = sessions[q.sid].data[key]

\* C3: the edit stream writes nothing to the session store, from its start
\* through its done line the stored card and the rest of the session are as
\* they were; the confirm that follows replaces the card: the collection then
\* holds updated_card at the index and every other index is unchanged
C3_EditStreamWritesNothing == [][EditThenConfirm]_vars

\* an edit stream has sent its done line with a card that differs from the
\* original, the confirm of that card has been answered 200, and the
\* collection holds the card at the index
C3_Witness ==
    /\ ed.pc = "done"
    /\ last.times > 0
    /\ last.request.sid = ed.sid
    /\ last.request.card_index = ed.card_index
    /\ last.request.source = ed.source
    /\ last.request.updated_card = ed.events[Len(ed.events)].updated
    /\ ed.events[Len(ed.events)].updated # ed.original
    /\ ed.sid \in DOMAIN sessions
    /\ StoredList(sessions, ed.sid, ed.source)[ed.card_index + 1]
          = ed.events[Len(ed.events)].updated

\* the card collections of the session rows
Collections(table) ==
    [sid \in DOMAIN table |->
        [key \in {"cards", "custom_cards"} |-> CardsList(table[sid].data, key)]]

\* no step of an edit operation, the stream or the plain request, changes a
\* stored card collection
NoEditPersists ==
    /\ EditStreamStep =>
          \A sid \in DOMAIN sessions' : Collections(sessions')[sid] = Collections(sessions)[sid]
    /\ \A r \in EditRequests :
          EditCustomCard(r.sid, r.card_index, r.prompt, r.source, r.res) =>
              \A sid \in DOMAIN sessions' :
                  Collections(sessions')[sid] = Collections(sessions)[sid]

\* C4: edit and confirm are separate, with no implicit confirm: no edit
\* operation of the service, the edit stream or the non-streaming edit,
\* stores the card the provider proposes; only confirm replaces a stored card
C4_NoEditPersists == [][NoEditPersists]_vars

(***************************************************************************)
(* Titles in the stored collections                                        *)
(***************************************************************************)
\* C8: in every reachable state, each stored collection (validation cards
\* and custom cards) of a live session has pairwise distinct titles once
\* trimmed and lower-cased
C8_StoredTitlesDistinct ==
    \A sid \in DOMAIN sessions :
        sessions[sid].expires_at > now =>
            \A key \in {"cards", "custom_cards"} :
                LET cards_list == CardsList(sessions[sid].data, key)
                IN  \A i, j \in 1..Len(cards_list) :
                        i # j => TitleKey(cards_list[i]) # TitleKey(cards_list[j])

(***************************************************************************)
(* Sixteen topics in batches of five                                       *)
(***************************************************************************)
\* the topics of the progress lines that carry one, in the order sent
RECURSIVE TopicsSent(_)
TopicsSent(events) ==
    IF events = <<>> THEN <<>>
    ELSE (IF Head(events).type = "progress" /\ Head(events).topic # <<>>
          THEN <<Head(events).topic>> ELSE <<>>) \o TopicsSent(Tail(events))

\* the cards of the cards lines, in the order sent
RECURSIVE CardsSent(_)
CardsSent(events) ==
    IF events = <<>> THEN <<>>
    ELSE (IF Head(events).type = "cards" THEN Head(events).cards ELSE <<>>)
         \o CardsSent(Tail(events))

\* the number of lines of a type
CountType(events, type) == Cardinality({i \in 1..Len(events) : events[i].type = type})

\* the number of topic lines among the lines of batch b
TopicLines(b) ==
    Cardinality({i \in SegStart(b)..SegEnd(b) :
                    an.events[i].type = "progress" /\ an.events[i].topic # <<>>})

BatchSizes == <<5, 5, 5, 1>>

\* every batch returned one card per topic, all kept by the dedup
OneCardPerTopic ==
    \A b \in 1..Len(an.log) :
        /\ an.log[b].returned = BatchSizes[b]
        /\ an.log[b].unique = BatchSizes[b]

\* C9: with 16 topics and batches of 5 the analysis stream runs 4 batches of
\* sizes 5, 5, 5, 1 that cover every topic once; when the provider returns
\* one valid card per topic with distinct titles the session ends with
\* exactly 16 cards in the order of the topics they were returned for, and
\* the stream ends with one dashboard line followed by one done line
C9_SixteenCards ==
    an.pc \in {"dashboard", "emit_done", "done"} =>
        /\ Len(an.log) = 4
        /\ \A b \in 1..4 : an.log[b].batch_index = b /\ TopicLines(b) = BatchSizes[b]
        /\ TopicsSent(an.events) = CARD_TOPICS
        /\ OneCardPerTopic =>
              /\ Len(an.all_cards) = 16
              /\ CardsSent(an.events) = an.all_cards
              /\ an.pc \in {"emit_done", "done"} =>
                    /\ an.sid \in DOMAIN sessions
                    /\ CardsList(sessions[an.sid].data, "cards") = an.all_cards
                    /\ CountType(an.events, "dashboard") = 1
                    /\ CountType(an.events, "done") = TailLen - 1
                    /\ an.events[Len(an.events) - TailLen + 1].type = "dashboard"
              /\ an.pc = "done" => an.events[Len(an.events)].type = "done"

\* a stream has ended with done after every batch returned the card of each
\* of its topics, and the session holds the 16 cards titled by the topics in
\* topic order
C9_Witness ==
    /\ an.pc = "done"
    /\ OneCardPerTopic
    /\ Len(sessions[an.sid].data.cards) = 16
    /\ \A i \in 1..16 : sessions[an.sid].data.cards[i].title = JStr(CARD_TOPICS[i])
    /\ an.events[Len(an.events) - 1].type = "dashboard"

(***************************************************************************)
(* Expiry of a session                                                     *)
(***************************************************************************)
\* the row of sid is there and the time t is strictly before its expiry
Live(table, sid, t) == sid \in DOMAIN table /\ t < table[sid].expires_at

\* what a read or a merge answers for an id that was never written
NeverWritten == [found |-> FALSE, data |-> <<>>]

\* one step of the store: a write sets the expiry to the time of the write
\* plus the TTL; a read answers with the row's dict exactly when the time is
\* strictly before that expiry and leaves the row, expiry included, as it
\* was; a read or a merge of an expired row answers as for an id never
\* written; the clock alone changes no row
ExpiryByLastWrite ==
    /\ \A data \in StoreDicts :
          StorePut("s1", data) =>
              /\ sessions'["s1"].data = data
              /\ sessions'["s1"].expires_at = now + TtlTicks
    /\ \A sid \in StoreIds :
          StoreGet(sid) =>
              /\ fn'.result.found <=> Live(sessions, sid, now)
              /\ Live(sessions, sid, now) =>
                    /\ fn'.result.data = sessions[sid].data
                    /\ sid \in DOMAIN sessions' /\ sessions'[sid] = sessions[sid]
              /\ ~Live(sessions, sid, now) =>
                    /\ fn'.result = NeverWritten
                    /\ ~Live(sessions', sid, now)
    /\ \A sid \in StoreIds, partial \in StoreDicts :
          (StorePatch(sid, partial) /\ ~Live(sessions, sid, now)) =>
              /\ fn'.result = NeverWritten
              /\ ~Live(sessions', sid, now)
    /\ now' # now => sessions' = sessions

\* C16: a read returns the record exactly when the time is strictly before
\* the expiry the last write stored (write time + TTL); once the TTL has
\* elapsed every read and every merge answers "not found" as for an id that
\* never existed, whether or not a read happened in between, and a read
\* never extends the expiry
C16_ExpiryByLastWrite == [][ExpiryByLastWrite]_vars

\* a session that was written has been read after its TTL elapsed, and the
\* read answered "not found"
C16_Witness ==
    /\ fn.op = "get"
    /\ fn.sid \in issued
    /\ ~fn.result.found
    /\ now >= TtlTicks

(***************************************************************************)
(* Merge                                                                   *)
(***************************************************************************)
\* a merge into a live session sets the keys of partial, keeps every other
\* key, returns the merged dict and sets the expiry to now + TTL; a merge
\* into an absent or expired session answers "not found" and leaves no
\* record of the id
MergeFrame ==
    \A sid \in StoreIds, partial \in StoreDicts :
        StorePatch(sid, partial) =>
            IF Live(sessions, sid, now)
            THEN /\ fn'.result.found
                 /\ sid \in DOMAIN sessions'
                 /\ fn'.result.data = sessions'[sid].data
                 /\ DOMAIN sessions'[sid].data = DOMAIN sessions[sid].data \cup DOMAIN partial
                 /\ \A key \in DOMAIN partial : sessions'[sid].data[key] = partial[key]
                 /\ \A key \in DOMAIN sessions[sid].data \ DOMAIN partial :
                       sessions'[sid].data[key] = sessions[sid].data[key]
                 /\ sessions'[sid].expires_at = now + TtlTicks
            ELSE /\ ~fn'.result.found
                 /\ sid \notin DOMAIN sessions'

\* C17: merge(id, partial) on a live session sets exactly the top-level keys
\* of partial, leaves every other top-level key unchanged and resets the
\* expiry to now + TTL; on an absent or expired session it returns "not
\* found" and creates no record
C17_MergeFrame == [][MergeFrame]_vars

\* a merge at a later time than the write has replaced one key, kept another
\* and refreshed the expiry
C17_Witness ==
    /\ fn.op = "patch"
    /\ fn.result.found
    /\ now > 0
    /\ DOMAIN fn.partial = {"cards"}
    /\ "llm_provider" \in DOMAIN fn.result.data
    /\ fn.sid \in DOMAIN sessions
    /\ sessions[fn.sid].data.cards = fn.partial.cards
    /\ sessions[fn.sid].expires_at = now + TtlTicks

(***************************************************************************)
(* The write of the analysis stream and its dashboard line                 *)
(***************************************************************************)
\* the step of the analysis stream that sends the dashboard line
DashboardSent == an.pc = "dashboard" /\ an'.pc = "emit_done"

\* the data of a dashboard line without the "property" entry the generator
\* adds for the client (lines 268-276)
SummaryOf(data) == [key \in DOMAIN data \ {"property"} |-> data[key]]

\* as the dashboard line is sent, a read of the session answers with a
\* dashboard_summary equal to the data sent and the cards of the cards lines
ReadAfterDashboard ==
    DashboardSent =>
        LET read == Get(sessions', an.sid, now)
            sent == an'.events[Len(an'.events)]
        IN  /\ read.found
            /\ "dashboard_summary" \in DOMAIN read.data
            /\ read.data.dashboard_summary = SummaryOf(sent.data)
            /\ CardsList(read.data, "cards") = CardsSent(an'.events)

\* C11: whenever the analysis stream has sent a dashboard line, a read of
\* the session returns a record whose dashboard_summary is the data sent and
\* whose cards are the cards of the stream's cards lines, also when the
\* session's TTL elapses during the stream
C11_ReadAfterDashboard == [][ReadAfterDashboard]_vars

\* a stream whose patch finds no live session ends with an error line: the
\* analysis stream sends no dashboard line, the custom-card stream no done
\* line
PatchNotFoundEndsStream ==
    /\ (an.pc = "dashboard" /\ an' # an /\ an'.pc # "crashed"
        /\ ~Live(sessions, an.sid, now)) =>
          /\ an'.pc = "error"
          /\ an'.events[Len(an'.events)].type = "error"
          /\ CountType(an'.events, "dashboard") = 0
    /\ (cc.pc = "waiting" /\ cc'.pc \in {"done", "error"}
        /\ ~Live(sessions, cc.sid, now)) =>
          /\ cc'.pc = "error"
          /\ cc'.events[Len(cc'.events)].type = "error"
          /\ CountType(cc'.events, "done") = 0

\* C12: when the patch of a running stream answers "not found" because the
\* session expired after the stream started, the stream ends with an error
\* line and sends no dashboard or done line for data that was not stored
C12_PatchNotFoundEndsStream == [][PatchNotFoundEndsStream]_vars

(***************************************************************************)
(* A provider that fails in one batch                                      *)
(***************************************************************************)
\* the provider's call raises, or its answer is not the expected object
ProviderFails(out) ==
    out.call = "error" \/ out.json \in {"invalid", "nonobject", "nocards"}

\* a batch in which the serving provider fails adds no card and leaves the
\* stream running: the next batch or the dashboard follows
FailedBatchAddsNothing ==
    (an.pc = "batch"
     /\ ServingProvider(cfg, DictGet(an.ctx, "llm_provider", "openai")) # "none") =>
        \A out \in BatchOutcomes(Slice(CARD_TOPICS, an.batch_start,
                                       an.batch_start + BATCH_SIZE)) :
            (ProviderFails(out) /\ StreamAnalysisBatch(out)) =>
                /\ an'.pc \in {"batch", "dashboard"}
                /\ an'.all_cards = an.all_cards
                /\ an'.batch_start = an.batch_start + BATCH_SIZE

\* C13: a provider failure in one batch (the call raises or the output is
\* malformed, with either provider) does not abort the analysis stream: the
\* batch contributes no card and the remaining batches and the dashboard run
C13_FailedBatchAddsNothing == [][FailedBatchAddsNothing]_vars

(***************************************************************************)
(* A custom-card or edit stream whose provider task fails                  *)
(***************************************************************************)
\* the lines of a stream whose task failed: one error line, the last one,
\* and no done line
EndsWithOneError(events) ==
    /\ events # <<>>
    /\ events[Len(events)].type = "error"
    /\ CountType(events, "error") = 1
    /\ CountType(events, "done") = 0

\* the step in which the task of a stream ends: if the task failed, the
\* stream has sent one error line, its last, and the store is as it was;
\* a stream that has ended with an error sends nothing more
TaskFailureEndsStream ==
    /\ \A res \in CreateResults :
         (res.raised /\ StreamCustomCardFinish(res)) =>
            /\ cc'.pc = "error"
            /\ EndsWithOneError(cc'.events)
            /\ sessions' = sessions
    /\ \A res \in EditResults :
         (res.raised /\ StreamEditCardFinish(res)) =>
            /\ ed'.pc = "error"
            /\ EndsWithOneError(ed'.events)
            /\ sessions' = sessions
    /\ (cc.pc = "error" /\ cc' # cc) => cc' = Idle
    /\ (ed.pc = "error" /\ ed' # ed) => ed' = Idle

\* C14: when the provider task of a custom-card stream or of an edit stream
\* fails, the stream ends with exactly one error line as its last line, sends
\* no done line and leaves the session as it was
C14_TaskFailureEndsStream == [][TaskFailureEndsStream]_vars

\* a custom-card stream has ended on a failed task after a progress line
C14_Witness ==
    /\ cc.pc = "error"
    /\ "create_custom_card_from_topic" \in cc.called
    /\ Len(cc.events) >= 2
    /\ cc.events[Len(cc.events)].type = "error"

(***************************************************************************)
(* The card a custom-card stream stores                                    *)
(***************************************************************************)
\* the custom-card stream sends its done line
CustomCardDone == cc.pc = "waiting" /\ cc'.pc = "done"

\* nothing wrote the session's custom cards since the stream read them
NoOtherWriter ==
    SessionMissing(cc.sid)
    \/ CardsList(sessions[cc.sid].data, "custom_cards") = CardsList(cc.session, "custom_cards")

\* as the done line is sent, the stored collection is the one the stream
\* read with the new card at its end, and the line carries the card and the
\* index at which it is stored
AppendedAtEnd ==
    (CustomCardDone /\ NoOtherWriter) =>
        LET before == CardsList(cc.session, "custom_cards")
            read == Get(sessions', cc.sid, now)
            stored == CardsList(read.data, "custom_cards")
            sent == cc'.events[Len(cc'.events)]
        IN  /\ CountType(cc'.events, "done") = 1
            /\ sent.type = "done"
            /\ read.found
            /\ Len(stored) = Len(before) + 1
            /\ \A i \in 1..Len(before) : stored[i] = before[i]
            /\ sent.index = Len(stored) - 1
            /\ stored[sent.index + 1] = sent.card

\* C15: when a custom-card stream completes with a done line and nothing
\* else wrote the session meanwhile, the new card is at the end of the stored
\* custom cards, the cards stored before keep their indices and contents, and
\* the single done line carries the card and index = new length - 1, the
\* index at which the card is stored
C15_AppendedAtEnd == [][AppendedAtEnd]_vars

(***************************************************************************)
(* The credit gate                                                         *)
(***************************************************************************)
\* the user of the form and of the stored sessions
User == JStr(<<"u">>)

\* the session is live and belongs to an identified user
LiveUser(sid) ==
    Live(sessions, sid, now) /\ Truthy(DictGet(sessions[sid].data, "username", JNull))

\* the request was turned away: the balance and every session row are as
\* they were, and no stream (so no provider task) was started
Rejected ==
    /\ credits' = credits
    /\ NoSessionWrite
    /\ an' = an /\ cc' = cc /\ ed' = ed

\* a gated request of an identified user whose balance was read and is below
\* the cost is turned away
LowBalanceRejected ==
    cfg.supabase =>
        /\ \A sid \in SessionIds, io \in DirectoryOutcomes :
             (io.read /\ credits < 2 /\ AnalyzeStart(sid, "openai", User, io)) => Rejected
        /\ \A io \in CreditOutcomes :
             (io.read /\ credits < 1 /\ LiveUser("s1")
              /\ CreateCustomCardStream("s1", <<"p">>, io)) => Rejected
        /\ \A r \in CreditConfirmRequests :
             (r.io.read /\ credits < 1 /\ r.sid \in SessionIds /\ LiveUser(r.sid)
              /\ ConfirmCardEdit(r.sid, r.card_index, r.source, r.card, r.io)) => Rejected

\* C20: when the balance the directory reports is below the cost of the
\* operation (2 for a session start, 1 for a custom-card stream, 1 for a
\* confirm), the request is rejected before any provider call, no session is
\* created or changed and the balance stays as it is
C20_LowBalanceRejected == [][LowBalanceRejected]_vars

\* a session start was turned away: an id was drawn and no session was
\* stored, at a time at which no session can have expired, with the
\* directory configured and a balance below the cost of a start
C20_Witness ==
    /\ cfg.supabase
    /\ credits = 1
    /\ now = 0
    /\ issued = {"s1"}
    /\ sessions = <<>>

\* a gated request of an identified user whose balance could not be read is
\* turned away
UnknownBalanceRejected ==
    cfg.supabase =>
        /\ \A sid \in SessionIds, io \in DirectoryOutcomes :
             (io.allowed /\ ~io.read /\ AnalyzeStart(sid, "openai", User, io)) => Rejected
        /\ \A io \in CreditOutcomes :
             (~io.read /\ LiveUser("s1")
              /\ CreateCustomCardStream("s1", <<"p">>, io)) => Rejected
        /\ \A r \in CreditConfirmRequests :
             (~r.io.read /\ r.sid \in SessionIds /\ LiveUser(r.sid)
              /\ ConfirmCardEdit(r.sid, r.card_index, r.source, r.card, r.io)) => Rejected

\* C19: a credit-gated operation of an identified user (start, custom-card
\* stream, confirm) is denied when the read of the balance fails or gives no
\* balance: no session is created or changed and no provider call is started
C19_UnknownBalanceRejected == [][UnknownBalanceRejected]_vars

(***************************************************************************)
(* The fields of a session that never change                               *)
(***************************************************************************)
\* the fields the routes write after the start
MutableFields == {"cards", "custom_cards", "dashboard_summary", "llm_provider"}

\* the role and property fields and the document context
StartFields == {"analyze_as", "property_name", "address", "leasable_area",
                "current_base_rent", "document_context"}

\* a session stored at this step holds the values of the start; a session
\* that is stored before and after a step has the same fields with the same
\* values, but for cards, custom cards, dashboard summary and provider
StartFieldsFrozen ==
    \A sid \in DOMAIN sessions' :
        LET after == sessions'[sid].data
        IN  IF sid \in DOMAIN sessions
            THEN LET before == sessions[sid].data
                 IN  /\ DOMAIN after \ MutableFields = DOMAIN before \ MutableFields
                     /\ \A key \in DOMAIN before \ MutableFields : after[key] = before[key]
            ELSE /\ StartFields \subseteq DOMAIN after
                 /\ \A key \in StartFields : after[key] = SessionData("openai", JNull)[key]

\* C18: whatever the analysis stream, the chat with a provider switch, the
\* custom-card creation, the edit and the confirm do and however they
\* interleave, a session keeps the role and property fields (analyze_as,
\* property_name, address, leasable_area, current_base_rent) and the document
\* context it was started with; only cards, custom cards, dashboard summary
\* and provider change
C18_StartFieldsFrozen == [][StartFieldsFrozen]_vars

\* a live session whose provider a chat has switched, with stored cards, a
\* dashboard summary and a custom card, after a confirm
C18_Witness ==
    /\ Live(sessions, "s1", now)
    /\ sessions["s1"].data.llm_provider = "anthropic"
    /\ {"cards", "dashboard_summary", "custom_cards"} \subseteq DOMAIN sessions["s1"].data
    /\ sessions["s1"].data.custom_cards # <<>>
    /\ last.times > 0
    /\ \A key \in StartFields :
          sessions["s1"].data[key] = SessionData("openai", JNull)[key]

(***************************************************************************)
(* A user directory that cannot be reached                                 *)
(***************************************************************************)
\* C21: when the user directory cannot be reached (the request fails or the
\* response is not a success), login answers "service unavailable" (503),
\* an outcome other than the 403 of a user who is not in the directory
C21_UnreachableIsUnavailable ==
    (fn.op = "login" /\ fn.stage = "return" /\ cfg.supabase
     /\ Strip(fn.username) # <<>> /\ fn.directory \in {"status", "unreachable"}) =>
        /\ fn.status = 503
        /\ fn.status # Login(fn.username, fn.password, "absent")

(***************************************************************************)
(* Provider selection                                                      *)
(***************************************************************************)
\* C22: the selection falls back in both directions: when the requested
\* provider is not configured and the other one is, the batch is served by
\* the other provider; placeholder cards, made without a provider call, are
\* returned only when neither provider is configured
C22_FallbackBothWays ==
    (fn.op \in {"run_card_batch", "run_card_batch_streaming"} /\ fn.stage = "return") =>
        /\ (cfg.openai_key \/ cfg.anthropic_enabled) =>
              /\ ServingProvider(cfg, fn.llm_provider) # "none"
              /\ fn.result.calls \cap {"openai", "anthropic"} # {}
        /\ (~cfg.openai_key /\ ~cfg.anthropic_enabled) =>
              /\ fn.result.calls = {}
              /\ fn.result.cards = PlaceholderCards(fn.card_topics_batch)

(***************************************************************************)
(* A stream the client has left                                            *)
(***************************************************************************)
\* C23: when the client disconnects from a custom-card stream or from the
\* analysis stream while the provider task is outstanding, the task runs to
\* completion and the store is still updated with what it produced: the new
\* custom card is appended, the cards and the dashboard summary are written
C23_DisconnectStillWrites ==
    /\ (cc.pc = "closed" /\ ~cc.task.raised) =>
          /\ cc.wrote
          /\ LET stored == CardsList(Get(sessions, cc.sid, now).data, "custom_cards")
             IN  stored # <<>> /\ stored[Len(stored)] = cc.task.card
    /\ an.pc = "closed" =>
          /\ an.wrote
          /\ "dashboard_summary" \in DOMAIN Get(sessions, an.sid, now).data

(***************************************************************************)
(* The lengths of the stored collections                                   *)
(***************************************************************************)
\* a session stored before and after the step holds at least as many
\* validation cards and custom cards as before
LengthsNeverDecrease ==
    \A sid \in DOMAIN sessions \cap DOMAIN sessions' :
        \A key \in {"cards", "custom_cards"} :
            Len(CardsList(sessions'[sid].data, key)) >= Len(CardsList(sessions[sid].data, key))

\* C24: no card is deleted on its own: for a live session and any sequence
\* of operations, a second run of the analysis stream included, the lengths
\* of the stored validation cards and custom cards never decrease
C24_LengthsNeverDecrease == [][LengthsNeverDecrease]_vars

(***************************************************************************)
(* The dashboard summary                                                   *)
(***************************************************************************)
\* a call of get_dashboard_summary has returned
DashboardReturned == fn.op = "get_dashboard_summary" /\ fn.stage = "return"

\* C25: with no card the dashboard summary is the fallback record:
\* provenance "fallback", confidence 0, delta 0.0, a fair-market rent equal
\* to the current rent and the three recommendations equal to the dash; no
\* provider is called for it
C25_NoCardsFallback ==
    (DashboardReturned /\ fn.cards = <<>>) =>
        LET data == fn.result.data
        IN  /\ ~fn.result.raised
            /\ fn.result.calls = 0
            /\ data.recommendations_source = "fallback"
            /\ data.confidence_score = 0
            /\ data.vs_current_pct = 0
            /\ data.fair_market_rent = ParseRent(fn.current_base_rent)
            /\ data.recommendations.ideal_term = Dash
            /\ data.recommendations.negotiation_leverage = Dash
            /\ data.recommendations.renewals = Dash

\* the summary of no cards has been returned with a provider configured and
\* ready to answer
C25_Witness ==
    /\ DashboardReturned
    /\ fn.cards = <<>>
    /\ cfg.openai_key /\ cfg.anthropic_enabled
    /\ fn.dout.attempts[1] = "ok"
    /\ fn.result.data.fair_market_rent = 1000


\* C26: the dashboard computation never raises: with either provider a call
\* error or an answer that is not JSON or is ill-typed gives the fallback
\* dashboard; OpenAI is asked with the search model first and the plain model
\* second before the fallback
C26_DashboardNeverRaises ==
    (DashboardReturned /\ fn.cards # <<>>) =>
        LET serving == ServingProvider(cfg, fn.llm_provider)
            source == fn.result.data.recommendations_source
        IN  /\ ~fn.result.raised
            /\ (serving = "openai" /\ fn.dout.attempts[1] # "ok") => fn.result.calls = 2
            /\ (serving = "openai" /\ fn.dout.attempts[1] # "ok"
                /\ fn.dout.attempts[2] # "ok") => source = "fallback"
            /\ (serving = "anthropic" /\ fn.dout.attempts[1] # "ok") => source = "fallback"


\* the sign of an integer
Sign(n) == IF n > 0 THEN 1 ELSE IF n < 0 THEN 0 - 1 ELSE 0

LinksReturned ==
    /\ fn.op = "_cards_from_llm_json" /\ fn.stage = "return"
    /\ "allowed_list" \in DOMAIN fn

\* C28: when a permitted URL set is given (search-grounded mode), every
\* source_url the normalizer returns that is not null is in the permitted
\* set, and no two cards of the answer carry the same non-null source_url,
\* whatever URLs the raw cards carry (missing, made up, repeated)
C28_PermittedAndUnique ==
    (LinksReturned /\ fn.allowed_list # <<>>) =>
        /\ \A i \in DOMAIN fn.result :
               fn.result[i].source_url # NoUrl =>
                   fn.result[i].source_url \in Range(fn.allowed_list)
        /\ \A i, j \in DOMAIN fn.result :
               (i # j /\ fn.result[i].source_url # NoUrl) =>
                   fn.result[i].source_url # fn.result[j].source_url

\* a grounded answer whose raw cards repeat a permitted URL and then make one
\* up: the cards come back with two different permitted URLs and a null
C28_Witness ==
    /\ LinksReturned /\ fn.allowed_list = <<"b", "a">>
    /\ [i \in DOMAIN fn.raw_cards |-> fn.raw_cards[i].source_url] = <<"a", "a", "x">>
    /\ [i \in DOMAIN fn.result |-> fn.result[i].source_url] = <<"a", "b", NoUrl>>


\* the raw cards of the call all lack a source_url
AllLackUrl == \A i \in DOMAIN fn.raw_cards : fn.raw_cards[i].source_url = NoUrl

\* C29: backfill follows the order in which the searches surfaced the
\* permitted URLs: with k permitted URLs and n > k raw cards that all lack a
\* URL, card i (i <= k) gets the i-th surfaced URL and cards k+1..n get null
C29_BackfillInSurfacedOrder ==
    (LinksReturned /\ fn.surfaced # <<>> /\ AllLackUrl
        /\ Len(fn.raw_cards) > Len(fn.surfaced)) =>
        \A i \in DOMAIN fn.result :
            fn.result[i].source_url =
                IF i <= Len(fn.surfaced) THEN fn.surfaced[i] ELSE NoUrl


\* C30: a raw card whose baseline_pct is 0 comes back with baseline_pct
\* null, never 0, and the baseline_pct of every card that comes back is null
\* or from 1 to 100
C30_ZeroPctIsNull ==
    LinksReturned =>
        \A i \in DOMAIN fn.result :
            /\ fn.raw_cards[i].baseline_pct = JInt(0) => fn.result[i].baseline_pct = JNoInt
            /\ \/ fn.result[i].baseline_pct = JNoInt
               \/ /\ fn.result[i].baseline_pct.k = "int"
                  /\ fn.result[i].baseline_pct.n \in 1..100


(***************************************************************************)
(* What the normalizer does with a malformed answer                        *)
(***************************************************************************)
\* C31: _cards_from_llm_json never raises: whatever the parsed payload (an
\* object or not, items that are not objects, a confidence_score int()
\* rejects), the call returns a list
C31_NormalizerNeverRaises ==
    (fn.op = "_cards_from_llm_json" /\ fn.stage = "return") => ~fn.result.raised

\* C40: every card _cards_from_llm_json returns has the InsightCard shape, a
\* non-empty title, an impact of positive, neutral or negative and a
\* confidence_score from 0 to 100, also a card of the except branch
C40_EmittedCardsHaveShape ==
    (fn.op = "_cards_from_llm_json" /\ fn.stage = "return" /\ ~fn.result.raised) =>
        \A i \in DOMAIN fn.result.cards :
            LET card == fn.result.cards[i]
            IN  /\ card.title.k = "str" /\ Len(card.title.s) >= 1
                /\ card.impact \in Impacts
                /\ card.confidence_score \in 0..100


(***************************************************************************)
(* How a stream ends                                                       *)
(***************************************************************************)
\* a done or error line
Terminal(e) == e.type \in {"done", "error"}

\* the lines hold one terminal line, which is the last line
OneTerminalLast(events) ==
    /\ events # <<>>
    /\ Terminal(events[Len(events)])
    /\ \A i \in 1..(Len(events) - 1) : ~Terminal(events[i])

\* C32: every invocation of a streaming flow (analysis, custom card, edit)
\* that has ended has sent exactly one terminal line (done or error) and
\* nothing after it; no stream ends without a terminal line
C32_OneTerminalEvent ==
    /\ Ended(an) => OneTerminalLast(an.events)
    /\ Ended(cc) => OneTerminalLast(cc.events)
    /\ Ended(ed) => OneTerminalLast(ed.events)


(***************************************************************************)
(* When the topic progress lines of a batch are sent                       *)
(***************************************************************************)
\* the topic-tagged progress lines among the lines sent
TopicLinesSent(events) ==
    Cardinality({i \in DOMAIN events :
                    events[i].type = "progress" /\ events[i].topic # <<>>})

\* C33: the per-topic progress lines of a batch are sent when the batch
\* begins, before the batch's provider call has completed: the step that sends
\* them, when a provider serves the batch, is not the step in which
\* run_card_batch_streaming has returned (the logger.info of the batch)
C33_TopicProgressBeforeCall ==
    [][(/\ an.pc = "batch"
        /\ ServingProvider(cfg, DictGet(an.ctx, "llm_provider", "openai")) # "none"
        /\ "events" \in DOMAIN an'
        /\ TopicLinesSent(an'.events) > TopicLinesSent(an.events))
       => Len(an'.log) = Len(an.log)]_vars



(***************************************************************************)
(* The progress lines of the custom-card and edit streams                  *)
(***************************************************************************)
\* the progress lines among the lines sent, in the order sent
ProgressLines(events) == SelectSeq(events, LAMBDA e : e.type = "progress")

\* the k-th progress line carries message (k - 1) mod 9 of the list of nine
CyclesThrough(events, thinking_steps) ==
    /\ Len(thinking_steps) = 9
    /\ \A k \in 1..Len(ProgressLines(events)) :
           ProgressLines(events)[k].message = thinking_steps[((k - 1) % 9) + 1]

\* C34 as stated: every custom-card or edit stream that has sent its
\* terminal line has sent at least one progress line before it, and its k-th
\* progress line carries message (k - 1) mod 9 of the flow's list
C34_ProgressBeforeTerminal ==
    /\ Ended(cc) => (Len(ProgressLines(cc.events)) >= 1
                     /\ CyclesThrough(cc.events, CustomThinkingSteps))
    /\ Ended(ed) => (Len(ProgressLines(ed.events)) >= 1
                     /\ CyclesThrough(ed.events, EditThinkingSteps))

\* the generator has started its task: it found the session and, for an
\* edit, the card
TaskStarted(flow) == "events" \in DOMAIN flow /\ flow.called # {}

\* C34, as it holds: a custom-card or edit stream whose generator has
\* started its task has sent at least one progress line, before any terminal
\* line, and the k-th progress line of every stream carries message
\* (k - 1) mod 9 of the flow's list of nine; a stream whose generator finds
\* no session or no card sends the error line alone
C34_ProgressOnceTaskStarted ==
    /\ TaskStarted(cc) => (/\ cc.events[1].type = "progress"
                           /\ CyclesThrough(cc.events, CustomThinkingSteps))
    /\ TaskStarted(ed) => (/\ ed.events[1].type = "progress"
                           /\ CyclesThrough(ed.events, EditThinkingSteps))
    /\ (Ended(cc) /\ ~TaskStarted(cc)) => (Len(cc.events) = 1 /\ cc.events[1].type = "error")
    /\ (Ended(ed) /\ ~TaskStarted(ed)) => (Len(ed.events) = 1 /\ ed.events[1].type = "error")

\* both streams are done after ten progress lines each, the tenth being the
\* first message of the list again
C34_Witness ==
    /\ cc.pc = "done" /\ Len(ProgressLines(cc.events)) = 10
    /\ cc.events[10].message = CustomThinkingSteps[1]
    /\ ed.pc = "done" /\ Len(ProgressLines(ed.events)) = 10
    /\ ed.events[10].message = EditThinkingSteps[1]


\* in this step the generator, whose task is done, sends nothing or sends
\* its terminal line
OnlyTerminalNext(flow, flowNext) ==
    \/ flowNext = flow
    \/ /\ Len(flowNext.events) = Len(flow.events) + 1
       /\ SubSeq(flowNext.events, 1, Len(flow.events)) = flow.events
       /\ Terminal(flowNext.events[Len(flowNext.events)])

\* C35: once the task of a custom-card or edit generator is done (returned
\* or raised), the generator sends no further progress line: the next line is
\* the terminal line; a progress line after the first is sent only in a step
\* that finds the task still running
C35_NoProgressAfterTaskDone ==
    [][/\ (cc.pc = "waiting" /\ fn.custom # Running) => OnlyTerminalNext(cc, cc')
       /\ (ed.pc = "waiting" /\ fn.edit # Running) => OnlyTerminalNext(ed, ed')
       /\ (cc.pc = "waiting" /\ cc'.pc = "waiting" /\ cc' # cc) => fn.custom = Running
       /\ (ed.pc = "waiting" /\ ed'.pc = "waiting" /\ ed' # ed) => fn.edit = Running]_vars

\* a custom-card stream whose task raised after three progress lines and an
\* edit stream whose task returned after two: each ended with the terminal
\* line next
C35_Witness ==
    /\ cc.pc = "error" /\ fn.custom # Running /\ Len(cc.events) = 4
    /\ ed.pc = "done" /\ fn.edit # Running /\ Len(ed.events) = 3


(***************************************************************************)
(* The search tool-use loop                                                *)
(***************************************************************************)
\* _openai_card_batch_with_tools has returned
ToolsReturned == fn.op = "_openai_card_batch_with_tools" /\ fn.stage = "return"

\* the provider asks for a search in round r
AsksSearch(r) ==
    \E i \in DOMAIN AnswerAt(fn.answers, r).tool_calls :
        AnswerAt(fn.answers, r).tool_calls[i].name = "web_search"

\* the first round in which the provider asks for no search
FirstQuietRound == CHOOSE r \in 1..(Len(fn.answers) + 1) :
                       ~AsksSearch(r) /\ \A q \in 1..(r - 1) : AsksSearch(q)

\* the URLs, other than "", of the results of the searches of one message
SearchedUrls(tool_calls) ==
    UNION {Range(tool_calls[i].urls) \ {""} :
              i \in {j \in DOMAIN tool_calls : tool_calls[j].name = "web_search"}}

\* the URLs of the results of every search run in the rounds up to r
UrlsUpTo(r) == UNION {SearchedUrls(AnswerAt(fn.answers, q).tool_calls) : q \in 1..r}

\* C36: the tool-use loop ends after at most 8 provider calls even when the
\* provider asks for a search in every round; it stops at the first round
\* with no search request; the URL set returned is the union of the
\* non-empty URLs of every search run in any round, and is empty when the
\* search backend is unavailable, the final text still being returned
C36_ToolLoopBounded ==
    ToolsReturned =>
        /\ fn.result.calls <= 8
        /\ fn.result.calls = IF FirstQuietRound <= 8 THEN FirstQuietRound ELSE 8
        /\ fn.tavily => fn.result.all_urls = UrlsUpTo(fn.result.calls)
        /\ ~fn.tavily => fn.result.all_urls = {}
        /\ FirstQuietRound <= 8 =>
               fn.result.content = ContentOf(AnswerAt(fn.answers, FirstQuietRound))


(***************************************************************************)
(* Overlapping custom-card streams                                         *)
(***************************************************************************)
\* the done lines of a generator
DoneLines(g) == {g.events[i] : i \in {j \in DOMAIN g.events : g.events[j].type = "done"}}

\* the stored custom-card collection of the session
StoredCustom == CardsList(Get(sessions, "s1", now).data, "custom_cards")

\* C37: when two custom-card streams on one session overlap, after both
\* have finished every card a done line reports is in the stored custom-card
\* collection at the index the line reports, and no two done lines report the
\* same index for different cards
C37_DoneCardsStay ==
    (cc.pc = "done" /\ fn.pc = "done") =>
        /\ \A e \in DoneLines(cc) \cup DoneLines(fn) :
               /\ e.index + 1 \in DOMAIN StoredCustom
               /\ StoredCustom[e.index + 1] = e.card
        /\ \A e \in DoneLines(cc) : \A f \in DoneLines(fn) :
               e.index = f.index => e.card = f.card


(***************************************************************************)
(* A chat request that names a provider                                    *)
(***************************************************************************)
\* C38: a chat request that names a provider switches the session to that
\* provider, normalized to openai or anthropic (an unknown name becoming
\* openai), and the reply to that request is written by the newly selected
\* provider, not by the one stored before the request
C38_ReplyUsesNewProvider ==
    [][\A sid \in RequestIds : \A p \in ChatProviders :
          (/\ Truthy(p)
           /\ Get(sessions, sid, now).found
           /\ AnalyzeChat(sid, <<"p">>, p))
          => /\ sessions'[sid].data.llm_provider = ChatProvider(p.s)
             /\ AnalyzeChatReply(sid) = ServingProvider(cfg, ChatProvider(p.s))]_vars


(***************************************************************************)
(* A confirm whose card index is out of range                              *)
(***************************************************************************)
\* the confirm request names a live session and a collection, and its index
\* is not an index of that collection: the answer is 404 "Card not found"
CardNotFound(r) ==
    /\ r.sid \in SessionIds /\ Live(sessions, r.sid, now)
    /\ NormalizeSource(r.source) \in ValidSources
    /\ ~InRange(r.card_index,
                CardsList(sessions[r.sid].data, CardsKey(NormalizeSource(r.source))))
    /\ ConfirmCardEditResult(sessions, credits, r.sid, r.card_index, r.source, r.card,
                             r.io, now).status = 404

\* C39: a confirm that is rejected because the card index is out of range
\* for the chosen collection leaves every session row and the user's credit
\* balance as they were
C39_CardNotFoundChargesNothing ==
    [][\A r \in CreditConfirmRequests :
          (CardNotFound(r) /\ ConfirmCardEdit(r.sid, r.card_index, r.source, r.card, r.io))
          => (NoSessionWrite /\ credits' = credits)]_vars

====
